---- MODULE Spec2Model ----
(***************************************************************************)
(* Recommendation engine and recommendation cache of alx-project-nexus.    *)
(*                                                                         *)
(* Conventions of the model                                                *)
(*   - rating scores and IMDB ratings are kept in tenths (4.0 is 40), so   *)
(*     that the arithmetic of the code is exact integer arithmetic;        *)
(*   - a recommendation score is the fraction <<numerator, denominator>>;  *)
(*   - a cache key is the sequence of the tokens of its text; the tokens   *)
(*     are cut so that substring matching on tokens is substring matching  *)
(*     on the text for every key and pattern the code builds;              *)
(*   - rows that an ORDER BY leaves tied come in ascending id order;       *)
(*   - a field the code names differently from models.py (rating for the   *)
(*     score of a Rating, favorites for favorited_by, progress_minutes of  *)
(*     a WatchHistory) is read as the field it means;                      *)
(*   - engine_api tells whether the engine has the get_*_recommendations   *)
(*     methods its two call sites use: "views_py" is the class as it is    *)
(*     written, "wrappers" the class with those methods handing over to    *)
(*     the strategy of their name.                                         *)
(***************************************************************************)
EXTENDS Integers, Sequences, FiniteSets, TLC

VARIABLES
    movies,         \* ids of the Movie rows of the store
    ratings,        \* ratings[u][m]: score of the Rating row of (u, m), 0 when there is none
    favorites,      \* set of <<u, m>>: the Favorite rows
    watch_history,  \* set of <<u, m>>: the WatchHistory rows
    cache,          \* the cache backend: a function from the keys it holds to their values
    backend,        \* "up", "no_pattern" (pattern deletion fails, the rest works) or "down"
    engine_api,     \* whether RecommendationEngine has the get_*_recommendations methods
    last,           \* the last request handled and its response
    nwrites,        \* number of writes made so far (bounded)
    nreq,           \* number of read requests made so far (bounded)
    rec,            \* the last direct strategy call and its result
    inflight        \* the for-me request that is between its cache.get and its cache.set

store == <<movies, ratings, favorites, watch_history>>

vars == <<movies, ratings, favorites, watch_history, cache, backend, engine_api,
          last, nwrites, nreq, rec, inflight>>

(***************************************************************************)
(* Bounds and input sets                                                   *)
(***************************************************************************)
MaxWrites == 1
MaxRequests == 2

UserIds == {1, 2, 10}
AnonymousUser == 0
MovieIds == {1, 2, 3, 4, 5, 6, 7}
Scores == {20, 40, 50}
Algorithms == {"popularity", "genre", "collaborative", "content", "hybrid"}
Limits == {1, 3, 6}
MinRatings == {0, 80}
WriteMovies == {6, 7}
ForMeWriteMovies == {6}

(***************************************************************************)
(* Movie rows (movies/models.py).  The engine never changes them.          *)
(***************************************************************************)
NullRating == -1

imdb_rating(m) ==
    CASE m = 1 -> 85 [] m = 2 -> 70 [] m = 3 -> 90 [] m = 4 -> 60
      [] m = 5 -> NullRating [] m = 6 -> 60 [] m = 7 -> 88 [] OTHER -> 50

popularity_score(m) ==
    CASE m = 1 -> 90 [] m = 2 -> 80 [] m = 3 -> 80 [] m = 4 -> 50
      [] m = 5 -> 40 [] m = 6 -> 95 [] m = 7 -> 30 [] OTHER -> 10

genres(m) ==
    CASE m = 1 -> {"Action"} [] m = 2 -> {"Action", "Drama"} [] m = 3 -> {"Drama"}
      [] m = 4 -> {"Comedy"} [] m = 5 -> {"Action"} [] m = 6 -> {"Action"}
      [] m = 7 -> {"Comedy", "Drama"} [] OTHER -> {}

tags(m) ==
    CASE m = 1 -> {"heist"} [] m = 3 -> {"space"} [] m = 6 -> {"heist"}
      [] m = 7 -> {"space"} [] m = 4 -> {"noir"} [] m = 5 -> {"noir"}
      [] OTHER -> {}

release_year(m) ==
    CASE m = 1 -> 1994 [] m = 2 -> 2001 [] m = 3 -> 2008 [] m = 4 -> 2015
      [] m = 5 -> 1999 [] m = 6 -> 1997 [] m = 7 -> 2012 [] OTHER -> 1980

\* Movie.title and Movie.description, as texts of tokens
title(m) == IF m \in {1, 2, 6} THEN <<"x">> ELSE <<"z">>

description(m) == IF m \in {2, 3} THEN <<"y">> ELSE <<>>

GenreIds == {"Action", "Comedy", "Drama"}
TagIds == {"heist", "space", "noir"}

(***************************************************************************)
(* Helpers                                                                 *)
(***************************************************************************)
RECURSIVE SetSum(_, _)
SetSum(S, f) ==
    IF S = {} THEN 0
    ELSE LET x == CHOOSE y \in S : TRUE IN f[x] + SetSum(S \ {x}, f)

Min(a, b) == IF a <= b THEN a ELSE b

Abs(x) == IF x < 0 THEN -x ELSE x

\* seq[:n]
Take(seq, n) == SubSeq(seq, 1, Min(IF n < 0 THEN 0 ELSE n, Len(seq)))

\* The elements of S as a sequence, ordered by the strict total order Before.
SortedBy(S, Before(_, _)) ==
    [i \in 1..Cardinality(S) |->
        CHOOSE x \in S : Cardinality({y \in S : Before(y, x)}) = i - 1]

Range(seq) == {seq[i] : i \in 1..Len(seq)}

(***************************************************************************)
(* Queries on the store                                                    *)
(***************************************************************************)
RatedBy(u) == {m \in movies : ratings[u][m] # 0}

Raters(m) == {u \in UserIds : ratings[u][m] # 0}

rating_count(m) == Cardinality(Raters(m))

rating_sum(m) == SetSum(Raters(m), [u \in UserIds |-> ratings[u][m]])

\* ORDER BY avg_rating DESC: a movie without ratings has avg_rating NULL, which
\* PostgreSQL puts first in a descending order.
AvgBefore(a, b) ==
    IF rating_count(a) = 0 \/ rating_count(b) = 0
    THEN rating_count(a) = 0 /\ rating_count(b) # 0
    ELSE rating_sum(a) * rating_count(b) > rating_sum(b) * rating_count(a)

\* The rows without the order_by: in primary key order
PopularityOrder_without_order_by(a, b) == a < b

\* ORDER BY popularity_score DESC, avg_rating DESC
PopularityOrder(a, b) ==
    \/ popularity_score(a) > popularity_score(b)
    \/ /\ popularity_score(a) = popularity_score(b)
       /\ \/ AvgBefore(a, b)
          \/ ~AvgBefore(b, a) /\ a < b

Recommendation(m, score, alg) == [movie |-> m, score |-> score, algorithm |-> alg]

MinRatingOk(m, min_rating) ==
    imdb_rating(m) # NullRating /\ imdb_rating(m) >= min_rating

(***************************************************************************)
(* RecommendationEngine (recommendations/views.py)                         *)
(***************************************************************************)
popularity_based(user, limit, min_rating) ==
    LET cand == {m \in movies : rating_count(m) >= 1 /\ MinRatingOk(m, min_rating)}
        rows == Take(SortedBy(cand, PopularityOrder), limit)
    IN  [i \in 1..Len(rows) |->
            Recommendation(rows[i], <<popularity_score(rows[i]), 1>>, "popularity")]

FavoriteBonus == 50

TopGenreCount == 5

\* genre_scores with a favorite weighing as much as a rating of 4.0
genre_scores_with_favorite_as_four(user) ==
    LET liked == {m \in movies : ratings[user][m] >= 40}
        favs  == {m \in movies : <<user, m>> \in favorites}
    IN  [g \in GenreIds |->
            SetSum({m \in liked : g \in genres(m)}, [m \in MovieIds |-> ratings[user][m]])
            + 40 * Cardinality({m \in favs : g \in genres(m)})]

\* genre_scores of genre_based: ratings >= 4 weigh their score, favorites weigh 5
genre_scores(user) ==
    LET liked == {m \in movies : ratings[user][m] >= 40}
        favs  == {m \in movies : <<user, m>> \in favorites}
    IN  [g \in GenreIds |->
            SetSum({m \in liked : g \in genres(m)}, [m \in MovieIds |-> ratings[user][m]])
            + FavoriteBonus * Cardinality({m \in favs : g \in genres(m)})]

\* Position of a genre in Genre's default ordering (Meta.ordering = ['name'])
GenreRank(g) == CASE g = "Action" -> 1 [] g = "Comedy" -> 2 [] g = "Drama" -> 3 [] OTHER -> 4

\* Counter.most_common(5): the keys of the counter by count, descending; keys of
\* equal count in the order of Genre's default ordering
top_genres(user) ==
    LET gs   == genre_scores(user)
        keys == {g \in GenreIds : gs[g] > 0}
        Before(g, h) == gs[g] > gs[h] \/ (gs[g] = gs[h] /\ GenreRank(g) < GenreRank(h))
    IN  Range(Take(SortedBy(keys, Before), TopGenreCount))

\* Counter.most_common(n) on the (key, count) pairs of a counter, the pairs in
\* the order the keys were first counted: the n keys of highest count, keys of
\* equal count in that order
most_common(counter, n) ==
    LET Before(i, j) ==
            counter[i][2] > counter[j][2] \/ (counter[i][2] = counter[j][2] /\ i < j)
        order == SortedBy(1..Len(counter), Before)
    IN  Take([k \in 1..Len(counter) |-> counter[order[k]][1]], n)

\* The counter genre_scores of a user as (genre, count) pairs
genre_counter(user) ==
    LET gs   == genre_scores(user)
        keys == {g \in GenreIds : gs[g] > 0}
        Before(g, h) == GenreRank(g) < GenreRank(h)
        order == SortedBy(keys, Before)
    IN  [k \in 1..Len(order) |-> <<order[k], gs[order[k]]>>]

\* genre_based without its `if not genre_scores` fallback
genre_based_without_fallback(user, limit, min_rating) ==
    IF user = AnonymousUser THEN popularity_based(AnonymousUser, limit, min_rating)
    ELSE
    LET liked    == {m \in movies : ratings[user][m] >= 40}
        favs     == {m \in movies : <<user, m>> \in favorites}
        gs       == genre_scores(user)
    IN  LET top      == top_genres(user)
            excluded == liked \cup favs
            cand     == {m \in movies : /\ genres(m) \cap top # {}
                                        /\ MinRatingOk(m, min_rating)
                                        /\ m \notin excluded}
            rows     == Take(SortedBy(cand, PopularityOrder), limit)
        IN  [i \in 1..Len(rows) |->
                Recommendation(rows[i], <<popularity_score(rows[i]), 1>>, "genre")]

\* genre_based with the candidates not restricted to the top genres
genre_based_of_every_genre(user, limit, min_rating) ==
    IF user = AnonymousUser THEN popularity_based(AnonymousUser, limit, min_rating)
    ELSE
    LET liked    == {m \in movies : ratings[user][m] >= 40}
        favs     == {m \in movies : <<user, m>> \in favorites}
        gs       == genre_scores(user)
    IN  IF \A g \in GenreIds : gs[g] = 0
        THEN popularity_based(AnonymousUser, limit, min_rating)
        ELSE
        LET excluded == liked \cup favs
            cand     == {m \in movies : /\ genres(m) # {}
                                        /\ MinRatingOk(m, min_rating)
                                        /\ m \notin excluded}
            rows     == Take(SortedBy(cand, PopularityOrder), limit)
        IN  [i \in 1..Len(rows) |->
                Recommendation(rows[i], <<popularity_score(rows[i]), 1>>, "genre")]

genre_based(user, limit, min_rating) ==
    IF user = AnonymousUser THEN popularity_based(AnonymousUser, limit, min_rating)
    ELSE
    LET liked    == {m \in movies : ratings[user][m] >= 40}
        favs     == {m \in movies : <<user, m>> \in favorites}
        gs       == genre_scores(user)
    IN  IF \A g \in GenreIds : gs[g] = 0
        THEN popularity_based(AnonymousUser, limit, min_rating)
        ELSE
        LET top      == top_genres(user)
            excluded == liked \cup favs
            cand     == {m \in movies : /\ genres(m) \cap top # {}
                                        /\ MinRatingOk(m, min_rating)
                                        /\ m \notin excluded}
            rows     == Take(SortedBy(cand, PopularityOrder), limit)
        IN  [i \in 1..Len(rows) |->
                Recommendation(rows[i], <<popularity_score(rows[i]), 1>>, "genre")]

\* Pairwise similarity of collaborative_filtering over the common movies, as the
\* fraction <<sum of (4 - |a - b|), 4 * number of common movies>> (in tenths)
common_movies(user, other) == RatedBy(user) \cap RatedBy(other)

SimilarityRange == 40

\* similarity divided by the number of the user's ratings instead of
\* len(common_movies)
similarity_over_all_ratings(user, other) ==
    LET common == common_movies(user, other)
    IN  << SetSum(common, [m \in MovieIds |->
                SimilarityRange - Abs(ratings[user][m] - ratings[other][m])]),
           SimilarityRange * Cardinality(RatedBy(user)) >>

similarity(user, other) ==
    LET common == common_movies(user, other)
    IN  << SetSum(common, [m \in MovieIds |->
                SimilarityRange - Abs(ratings[user][m] - ratings[other][m])]),
           SimilarityRange * Cardinality(common) >>

MinCommonMovies == 2

\* similarity > 0.5
similar_users(user) ==
    {o \in UserIds \ {user} :
        /\ RatedBy(o) # {}
        /\ Cardinality(common_movies(user, o)) >= MinCommonMovies
        /\ 2 * similarity(user, o)[1] > similarity(user, o)[2]}

MaxSimilarUsers == 10

\* sorted(similar_users, key=similarity, reverse=True)[:10]
similar_user_ids(user) ==
    LET Before(a, b) ==
            LET sa == similarity(user, a)
                sb == similarity(user, b)
            IN  sa[1] * sb[2] > sb[1] * sa[2] \/ (sa[1] * sb[2] = sb[1] * sa[2] /\ a < b)
    IN  Range(Take(SortedBy(similar_users(user), Before), MaxSimilarUsers))

\* Rating.objects.exclude(user=user): one row per rating of another user.  The
\* rows come in the order of Rating.Meta.ordering (rated_at), which the store
\* does not keep; the order only decides the order of similar_users.
rating_rows(user) ==
    LET Before(a, b) == a[1] < b[1] \/ (a[1] = b[1] /\ a[2] < b[2])
    IN  SortedBy({row \in (UserIds \ {user}) \X movies : ratings[row[1]][row[2]] # 0},
                 Before)

UserIdsOf(pairs) == {pairs[i][1] : i \in 1..Len(pairs)}

\* the loop over the rows without `if other_user.id in [...]: continue`
RECURSIVE find_similar_users_without_continue(_, _, _)
find_similar_users_without_continue(user, rows, found) ==
    IF rows = <<>> THEN found
    ELSE
    LET other_user == Head(rows)[1]
    IN  IF /\ Cardinality(common_movies(user, other_user)) >= MinCommonMovies
           /\ 2 * similarity(user, other_user)[1] > similarity(user, other_user)[2]
        THEN find_similar_users_without_continue(user, Tail(rows),
                 Append(found, <<other_user, similarity(user, other_user)>>))
        ELSE find_similar_users_without_continue(user, Tail(rows), found)

\* The loop that fills the list similar_users with (user id, similarity) pairs
RECURSIVE find_similar_users(_, _, _)
find_similar_users(user, rows, found) ==
    IF rows = <<>> THEN found
    ELSE
    LET other_user == Head(rows)[1]
    IN  IF other_user \in UserIdsOf(found)
        THEN find_similar_users(user, Tail(rows), found)
        ELSE IF /\ Cardinality(common_movies(user, other_user)) >= MinCommonMovies
                /\ 2 * similarity(user, other_user)[1] > similarity(user, other_user)[2]
        THEN find_similar_users(user, Tail(rows),
                 Append(found, <<other_user, similarity(user, other_user)>>))
        ELSE find_similar_users(user, Tail(rows), found)

\* [user_id for user_id, _ in sorted(similar_users, key=similarity, reverse=True)[:10]];
\* sorted() is stable, so pairs of equal similarity keep the order of the list
top_similar_users(found) ==
    LET Before(i, j) ==
            \/ found[i][2][1] * found[j][2][2] > found[j][2][1] * found[i][2][2]
            \/ /\ found[i][2][1] * found[j][2][2] = found[j][2][1] * found[i][2][2]
               /\ i < j
        order == SortedBy(1..Len(found), Before)
    IN  Take([k \in 1..Len(found) |-> found[order[k]][1]], MaxSimilarUsers)

MinUserRatings == 3

MinSupport == 2

\* The users whose ratings the similarity scan of collaborative_filtering reads:
\* none when the call returns before the scan
scanned_users(user) ==
    IF user = AnonymousUser \/ Cardinality(RatedBy(user)) < MinUserRatings THEN {}
    ELSE {o \in UserIds \ {user} : RatedBy(o) # {}}

\* recommended_movies without its rating__gte=4
recommended_movies_without_rating_filter(r, ids, rated, limit, min_rating) ==
    LET supporters(m) == {o \in ids : r[o][m] > 0}
        count(m) == Cardinality(supporters(m))
        total(m) == SetSum(supporters(m), [o \in DOMAIN r |-> r[o][m]])
        cand == {m \in movies : /\ m \notin rated
                                 /\ count(m) >= MinSupport
                                 /\ MinRatingOk(m, min_rating)}
        \* ORDER BY avg_score DESC, count DESC
        Before(a, b) ==
            \/ total(a) * count(b) > total(b) * count(a)
            \/ /\ total(a) * count(b) = total(b) * count(a)
               /\ (count(a) > count(b) \/ (count(a) = count(b) /\ a < b))
        rows == Take(SortedBy(cand, Before), limit)
    IN  [i \in 1..Len(rows) |->
            Recommendation(rows[i], <<total(rows[i]), 10 * count(rows[i])>>, "collaborative")]

\* The query recommended_movies and the loop over its rows: r are the ratings
\* (0: no row), ids the selected neighbours, rated the requester's movies.  The
\* score is avg_score as the pair <<sum of the scores, 10 * count>>.
recommended_movies(r, ids, rated, limit, min_rating) ==
    LET supporters(m) == {o \in ids : r[o][m] >= 40}
        count(m) == Cardinality(supporters(m))
        total(m) == SetSum(supporters(m), [o \in DOMAIN r |-> r[o][m]])
        cand == {m \in movies : /\ m \notin rated
                                 /\ count(m) >= MinSupport
                                 /\ MinRatingOk(m, min_rating)}
        \* ORDER BY avg_score DESC, count DESC
        Before(a, b) ==
            \/ total(a) * count(b) > total(b) * count(a)
            \/ /\ total(a) * count(b) = total(b) * count(a)
               /\ (count(a) > count(b) \/ (count(a) = count(b) /\ a < b))
        rows == Take(SortedBy(cand, Before), limit)
    IN  [i \in 1..Len(rows) |->
            Recommendation(rows[i], <<total(rows[i]), 10 * count(rows[i])>>, "collaborative")]

\* collaborative_filtering without its `if user_ratings.count() < 3`
collaborative_filtering_without_count_check(user, limit, min_rating) ==
    IF user = AnonymousUser THEN popularity_based(AnonymousUser, limit, min_rating)
    ELSE IF similar_users(user) = {} THEN genre_based(user, limit, min_rating)
    ELSE
    LET ids == similar_user_ids(user)
        supporters(m) == {o \in ids : ratings[o][m] >= 40}
        count(m) == Cardinality(supporters(m))
        total(m) == SetSum(supporters(m), [o \in UserIds |-> ratings[o][m]])
        cand == {m \in movies : /\ m \notin RatedBy(user)
                                 /\ count(m) >= MinSupport
                                 /\ MinRatingOk(m, min_rating)}
        \* ORDER BY avg_score DESC, count DESC
        Before(a, b) ==
            \/ total(a) * count(b) > total(b) * count(a)
            \/ /\ total(a) * count(b) = total(b) * count(a)
               /\ (count(a) > count(b) \/ (count(a) = count(b) /\ a < b))
        rows == Take(SortedBy(cand, Before), limit)
    IN  [i \in 1..Len(rows) |->
            Recommendation(rows[i], <<total(rows[i]), 10 * count(rows[i])>>, "collaborative")]

collaborative_filtering(user, limit, min_rating) ==
    IF user = AnonymousUser THEN popularity_based(AnonymousUser, limit, min_rating)
    ELSE IF Cardinality(RatedBy(user)) < MinUserRatings THEN genre_based(user, limit, min_rating)
    ELSE IF similar_users(user) = {} THEN genre_based(user, limit, min_rating)
    ELSE recommended_movies(ratings, similar_user_ids(user), RatedBy(user), limit, min_rating)

decade(m) == (release_year(m) \div 10) * 10

\* content_score with the preferences taken from every rating of the user
content_score_of_every_rating(user, m) ==
    LET liked == {x \in movies : ratings[user][x] > 0}
        w == [x \in MovieIds |-> ratings[user][x]]
        preferred_genres(g) == SetSum({x \in liked : g \in genres(x)}, w)
        preferred_tags(t)   == SetSum({x \in liked : t \in tags(x)}, w)
        preferred_decades(d) == SetSum({x \in liked : decade(x) = d}, w)
    IN    4 * SetSum(genres(m), [g \in GenreIds |-> preferred_genres(g)])
        + 3 * SetSum(tags(m), [t \in TagIds |-> preferred_tags(t)])
        + 3 * preferred_decades(decade(m))

\* score of content_based for a candidate movie, in hundredths:
\* 0.4 * genre weights + 0.3 * tag weights + 0.3 * decade weight
content_score(user, m) ==
    LET liked == {x \in movies : ratings[user][x] >= 40}
        w == [x \in MovieIds |-> ratings[user][x]]
        preferred_genres(g) == SetSum({x \in liked : g \in genres(x)}, w)
        preferred_tags(t)   == SetSum({x \in liked : t \in tags(x)}, w)
        preferred_decades(d) == SetSum({x \in liked : decade(x) = d}, w)
    IN    4 * SetSum(genres(m), [g \in GenreIds |-> preferred_genres(g)])
        + 3 * SetSum(tags(m), [t \in TagIds |-> preferred_tags(t)])
        + 3 * preferred_decades(decade(m))

content_based(user, limit, min_rating) ==
    IF user = AnonymousUser THEN popularity_based(AnonymousUser, limit, min_rating)
    ELSE IF {m \in movies : ratings[user][m] >= 40} = {}
    THEN genre_based(user, limit, min_rating)
    ELSE
    LET cand == {m \in movies : /\ m \notin RatedBy(user)
                                 /\ MinRatingOk(m, min_rating)
                                 /\ content_score(user, m) > 0}
        \* list.sort(key=score, reverse=True) is stable: movies of equal score stay
        \* in the order of Movie's default ordering (-created_at: newest id first)
        Before(a, b) ==
            \/ content_score(user, a) > content_score(user, b)
            \/ content_score(user, a) = content_score(user, b) /\ a > b
        rows == Take(SortedBy(cand, Before), limit)
    IN  [i \in 1..Len(rows) |->
            Recommendation(rows[i], <<content_score(user, rows[i]), 100>>, "content")]

\* The merge loop without its `if len(final_recs) >= limit: break`
RECURSIVE merge_recs_without_break(_, _, _, _, _)
merge_recs_without_break(all_recs, i, seen_movies, final_recs, limit) ==
    IF i > Len(all_recs) THEN final_recs
    ELSE IF all_recs[i].movie \in seen_movies
    THEN merge_recs_without_break(all_recs, i + 1, seen_movies, final_recs, limit)
    ELSE merge_recs_without_break(all_recs, i + 1, seen_movies \cup {all_recs[i].movie},
             Append(final_recs, [all_recs[i] EXCEPT !.algorithm = "hybrid"]), limit)

\* The merge loop without its `if movie_id not in seen_movies`
RECURSIVE merge_recs_without_seen(_, _, _, _, _)
merge_recs_without_seen(all_recs, i, seen_movies, final_recs, limit) ==
    IF i > Len(all_recs) THEN final_recs
    ELSE
    LET kept == Append(final_recs, [all_recs[i] EXCEPT !.algorithm = "hybrid"])
    IN  IF Len(kept) >= limit THEN kept
        ELSE merge_recs_without_seen(all_recs, i + 1, seen_movies, kept, limit)

\* The merge loop of hybrid_recommendations: the first occurrence of a movie is
\* kept and relabelled, and the loop stops once `limit` items are kept.
RECURSIVE merge_recs(_, _, _, _, _)
merge_recs(all_recs, i, seen_movies, final_recs, limit) ==
    IF i > Len(all_recs) THEN final_recs
    ELSE IF all_recs[i].movie \in seen_movies
    THEN merge_recs(all_recs, i + 1, seen_movies, final_recs, limit)
    ELSE
    LET kept == Append(final_recs, [all_recs[i] EXCEPT !.algorithm = "hybrid"])
    IN  IF Len(kept) >= limit THEN kept
        ELSE merge_recs(all_recs, i + 1, seen_movies \cup {all_recs[i].movie}, kept, limit)

HybridMinRatings == 5

\* hybrid_recommendations without its `if user_rating_count >= 5`
hybrid_recommendations_without_rating_count(user, limit, min_rating) ==
    IF user = AnonymousUser THEN popularity_based(AnonymousUser, limit, min_rating)
    ELSE
    LET popularity_recs == popularity_based(user, limit \div 2, min_rating)
        genre_recs      == genre_based(user, limit \div 2, min_rating)
        collaborative_recs == collaborative_filtering(user, limit \div 3, min_rating)
        content_recs    == content_based(user, limit \div 3, min_rating)
        all_recs == popularity_recs \o genre_recs \o collaborative_recs \o content_recs
    IN  merge_recs(all_recs, 1, {}, <<>>, limit)

hybrid_recommendations(user, limit, min_rating) ==
    IF user = AnonymousUser THEN popularity_based(AnonymousUser, limit, min_rating)
    ELSE
    LET popularity_recs == popularity_based(user, limit \div 2, min_rating)
        genre_recs      == genre_based(user, limit \div 2, min_rating)
        enough          == Cardinality(RatedBy(user)) >= HybridMinRatings
        collaborative_recs ==
            IF enough THEN collaborative_filtering(user, limit \div 3, min_rating) ELSE <<>>
        content_recs ==
            IF enough THEN content_based(user, limit \div 3, min_rating) ELSE <<>>
        all_recs == popularity_recs \o genre_recs \o collaborative_recs \o content_recs
    IN  merge_recs(all_recs, 1, {}, <<>>, limit)

\* The users whose ratings a call of a strategy scans for similarity
scans(algorithm, user) ==
    CASE algorithm = "collaborative" -> scanned_users(user)
      [] /\ algorithm = "hybrid" /\ user # AnonymousUser
         /\ Cardinality(RatedBy(user)) >= HybridMinRatings -> scanned_users(user)
      [] OTHER -> {}

\* The list similar_users a call fills: empty when the call returns before
\* the loop
finds(algorithm, user) ==
    CASE /\ algorithm = "collaborative" /\ user # AnonymousUser
         /\ Cardinality(RatedBy(user)) >= MinUserRatings
            -> find_similar_users(user, rating_rows(user), <<>>)
      [] /\ algorithm = "hybrid" /\ user # AnonymousUser
         /\ Cardinality(RatedBy(user)) >= HybridMinRatings
            -> find_similar_users(user, rating_rows(user), <<>>)
      [] OTHER -> <<>>

\* A direct call of one of the five strategies of the engine
strategy(algorithm, user, limit, min_rating) ==
    CASE algorithm = "popularity"    -> popularity_based(user, limit, min_rating)
      [] algorithm = "genre"         -> genre_based(user, limit, min_rating)
      [] algorithm = "collaborative" -> collaborative_filtering(user, limit, min_rating)
      [] algorithm = "content"       -> content_based(user, limit, min_rating)
      [] OTHER                       -> hybrid_recommendations(user, limit, min_rating)

(***************************************************************************)
(* Cache keys (cache_utils.py, CacheManager.get_cache_key)                 *)
(***************************************************************************)
Digit(d) ==
    CASE d = 0 -> "0" [] d = 1 -> "1" [] d = 2 -> "2" [] d = 3 -> "3" [] d = 4 -> "4"
      [] d = 5 -> "5" [] d = 6 -> "6" [] d = 7 -> "7" [] d = 8 -> "8" [] OTHER -> "9"

\* str(n) of a non-negative int
RECURSIVE IntStr(_)
IntStr(n) == IF n < 10 THEN <<Digit(n)>> ELSE IntStr(n \div 10) \o <<Digit(n % 10)>>

\* str(x) of a float with one decimal, x given in tenths: 8.0 is "8.0"
FloatStr(t) == IntStr(t \div 10) \o <<".">> \o IntStr(t % 10)

\* str(movie.id): a UUID, one token per movie
UuidStr(m) ==
    CASE m = 1 -> <<"uuid1">> [] m = 2 -> <<"uuid2">> [] m = 3 -> <<"uuid3">>
      [] m = 4 -> <<"uuid4">> [] m = 5 -> <<"uuid5">> [] m = 6 -> <<"uuid6">>
      [] m = 7 -> <<"uuid7">> [] OTHER -> <<"uuid0">>

\* number of characters of a token
TokenLen(t) ==
    CASE t = "recommendations" -> 15 [] t = "collaborative" -> 13
      [] t = "popularity" -> 10 [] t = "min_rating" -> 10
      [] t = "trending" -> 8 [] t = "popular" -> 7 [] t = "similar" -> 7 [] t = "content" -> 7
      [] t = "hybrid" -> 6 [] t = "movie" -> 5 [] t = "genre" -> 5 [] t = "stats" -> 5
      [] t = "user" -> 4 [] t = "list" -> 4
      [] t = "description" -> 11 [] t = "title" -> 5
      [] t \in {"uuid0", "uuid1", "uuid2", "uuid3", "uuid4", "uuid5", "uuid6", "uuid7"} -> 36
      [] t = "md5" -> 32
      [] OTHER -> 1

RECURSIVE TextLen(_)
TextLen(key) == IF key = <<>> THEN 0 ELSE TokenLen(Head(key)) + TextLen(Tail(key))

\* ':'.join(parts)
RECURSIVE JoinColon(_)
JoinColon(parts) ==
    IF parts = <<>> THEN <<>>
    ELSE IF Len(parts) = 1 THEN parts[1]
    ELSE parts[1] \o <<":">> \o JoinColon(Tail(parts))

MaxKeyLen == 200

\* get_cache_key(prefix, *args, **kwargs); args are given as their str() texts and
\* kwargs as the sequence sorted(kwargs.items()) of <<name, str(value)>>
get_cache_key(prefix, args, sorted_kwargs) ==
    LET key_data == prefix \o <<":">> \o JoinColon(args)
        kwargs_str == JoinColon([i \in 1..Len(sorted_kwargs) |->
                          sorted_kwargs[i][1] \o <<"=">> \o sorted_kwargs[i][2]])
        full == IF sorted_kwargs = <<>> THEN key_data ELSE key_data \o <<":">> \o kwargs_str
    IN  IF TextLen(full) > MaxKeyLen THEN prefix \o <<":", "md5">> \o full ELSE full

recommendations_key(user_id, algorithm, limit, min_rating) ==
    get_cache_key(<<"recommendations">>,
                  <<IntStr(user_id), <<algorithm>>, IntStr(limit)>>,
                  << <<<<"min_rating">>, FloatStr(min_rating)>> >>)

movie_stats_key(movie_id) == get_cache_key(<<"movie", "_", "stats">>, <<UuidStr(movie_id)>>, <<>>)

movies_popular_key(limit) == get_cache_key(<<"movie", "s", "_", "popular">>, <<IntStr(limit)>>, <<>>)

\* sorted(kwargs.items()) of the keyword parameters given in the order `items`,
\* each a pair <<name, str(value)>> with a name of its own
sorted_items(items) ==
    LET names == {items[i][1] : i \in 1..Len(items)}
        Before(a, b) == a = "description" /\ b = "title"
        order == SortedBy(names, Before)
    IN  [i \in 1..Len(order) |->
            << <<order[i]>>, items[CHOOSE j \in 1..Len(items) : items[j][1] = order[i]][2] >>]

\* the cache_key of get_popular_movies(limit, **filters)
movies_popular_filters_key(limit, filters) ==
    get_cache_key(<<"movie", "s", "_", "popular">>, <<IntStr(limit)>>, sorted_items(filters))

(***************************************************************************)
(* The cache backend and CacheManager.invalidate_pattern                   *)
(***************************************************************************)
Backends == {"up", "no_pattern", "down"}

Restrict(c, keys) == [k \in keys |-> c[k]]

cache_set(c, key, value) == [k \in DOMAIN c \cup {key} |-> IF k = key THEN value ELSE c[k]]

\* redis KEYS *pattern*: the pattern occurs somewhere in the key
Contains(key, pattern) ==
    \E i \in 1..(Len(key) - Len(pattern) + 1) :
        SubSeq(key, i, i + Len(pattern) - 1) = pattern

\* invalidate_pattern with redis KEYS given the pattern without its wildcards
invalidate_pattern_without_wildcards(c, pattern) ==
    CASE backend = "up"         -> Restrict(c, {k \in DOMAIN c : k # pattern})
      [] backend = "no_pattern" -> Restrict(c, {})
      [] OTHER                  -> c

\* invalidate_pattern on cache content c: delete the matching keys; when the redis
\* calls raise, cache.clear().  With the backend down clear() raises too and the
\* content stays (CacheRaises tells).
invalidate_pattern(c, pattern) ==
    CASE backend = "up"         -> Restrict(c, {k \in DOMAIN c : ~Contains(k, pattern)})
      [] backend = "no_pattern" -> Restrict(c, {})
      [] OTHER                  -> c

CacheRaises == backend = "down"

RECURSIVE invalidate_patterns(_, _)
invalidate_patterns(c, patterns) ==
    IF patterns = <<>> THEN c
    ELSE invalidate_patterns(invalidate_pattern(c, Head(patterns)), Tail(patterns))

\* MovieCacheManager.invalidate_movie_cache(movie_id)
invalidate_movie_cache(c, movie_id) ==
    invalidate_patterns(c, << <<"movie", "s", "_", "popular">>,
                              <<"movie", "s", "_", "trending">>,
                              <<"movie", "s", "_", "list">>,
                              <<"movie", "_", "stats", "_">> \o UuidStr(movie_id),
                              <<"movie", "_">> \o UuidStr(movie_id) >>)

\* UserCacheManager.invalidate_user_cache(user_id)
invalidate_user_cache(c, user_id) ==
    invalidate_patterns(c, << <<"user", "_", "stats", ":">> \o IntStr(user_id),
                              <<"recommendations", ":">> \o IntStr(user_id) >>)

\* RecommendationCacheManager.invalidate_user_recommendations(user_id)
invalidate_user_recommendations(c, user_id) ==
    invalidate_pattern(c, <<"recommendations", ":">> \o IntStr(user_id))

\* The post_save / post_delete receivers
invalidate_movie_cache_on_change(c, movie_id) == invalidate_movie_cache(c, movie_id)

invalidate_rating_cache_on_change(c, user_id, movie_id) ==
    invalidate_user_recommendations(
        invalidate_user_cache(invalidate_movie_cache(c, movie_id), user_id), user_id)

\* A Favorite receiver that invalidates what the Rating receiver invalidates
invalidate_favorite_cache_as_rating(c, user_id, movie_id) ==
    invalidate_rating_cache_on_change(c, user_id, movie_id)

invalidate_favorite_cache_on_change(c, user_id, movie_id) ==
    invalidate_user_recommendations(invalidate_user_cache(c, user_id), user_id)

invalidate_watch_history_cache_on_change(c, user_id, movie_id) ==
    invalidate_user_recommendations(invalidate_user_cache(c, user_id), user_id)

(***************************************************************************)
(* CacheManager.cached_query                                               *)
(***************************************************************************)
\* cached_query(cache_key, query_func, timeout) on cache content c.  `result` is
\* what query_func() returns and `query_raises` whether it raises instead;
\* `fail_at` says which call of a backend that is down raises first.  A hit is a
\* cache.get that returns a value, which is never None here.
cached_query(c, cache_key, result, query_raises, fail_at) ==
    IF CacheRaises /\ fail_at = "get"
    THEN [raised |-> TRUE, hit |-> FALSE, result |-> <<>>, invoked |-> 0, cache |-> c]
    ELSE IF cache_key \in DOMAIN c
    THEN [raised |-> FALSE, hit |-> TRUE, result |-> c[cache_key], invoked |-> 0, cache |-> c]
    ELSE IF query_raises
    THEN [raised |-> TRUE, hit |-> FALSE, result |-> <<>>, invoked |-> 0, cache |-> c]
    ELSE IF CacheRaises
    THEN [raised |-> TRUE, hit |-> FALSE, result |-> <<>>, invoked |-> 1, cache |-> c]
    ELSE [raised |-> FALSE, hit |-> FALSE, result |-> result, invoked |-> 1,
          cache |-> cache_set(c, cache_key, result)]

FailPoints == IF backend = "down" THEN {"get", "set"} ELSE {"none"}

(***************************************************************************)
(* GET /recommendations/for-me (UserRecommendationsView.get and            *)
(* RecommendationCacheManager.get_user_recommendations)                    *)
(***************************************************************************)
EngineApis == {"views_py", "wrappers"}

\* The class RecommendationEngine of views.py defines popularity_based, genre_based,
\* collaborative_filtering, content_based and hybrid_recommendations only: a call of
\* engine.get_<name>_recommendations raises AttributeError.
EngineRaises == engine_api = "views_py"

DefaultMinRating == 0

\* The methods the two call sites expect of the engine: each hands its arguments
\* to the strategy of its name, the user being the one with id user_id.
get_popularity_based_recommendations(limit, min_rating) ==
    popularity_based(AnonymousUser, limit, min_rating)

get_genre_based_recommendations(user_id, limit, min_rating) ==
    genre_based(user_id, limit, min_rating)

get_collaborative_filtering_recommendations(user_id, limit, min_rating) ==
    collaborative_filtering(user_id, limit, min_rating)

get_content_based_recommendations(user_id, limit, min_rating) ==
    content_based(user_id, limit, min_rating)

get_hybrid_recommendations(user_id, limit, min_rating) ==
    hybrid_recommendations(user_id, limit, min_rating)

\* query_func of get_user_recommendations: params is {min_rating}; the collaborative
\* and content calls pass user_id and limit only
query_func(user_id, algorithm, limit, min_rating) ==
    CASE algorithm = "popularity" ->
            get_popularity_based_recommendations(limit, min_rating)
      [] algorithm = "genre" ->
            get_genre_based_recommendations(user_id, limit, min_rating)
      [] algorithm = "collaborative" ->
            get_collaborative_filtering_recommendations(user_id, limit, DefaultMinRating)
      [] algorithm = "content" ->
            get_content_based_recommendations(user_id, limit, DefaultMinRating)
      [] OTHER ->
            get_hybrid_recommendations(user_id, limit, min_rating)

\* The except branch of UserRecommendationsView.get
direct_computation(user_id, algorithm, limit, min_rating) ==
    CASE algorithm = "popularity" ->
            get_popularity_based_recommendations(limit, min_rating)
      [] algorithm = "genre" ->
            get_genre_based_recommendations(user_id, limit, min_rating)
      [] algorithm = "collaborative" ->
            get_collaborative_filtering_recommendations(user_id, limit, DefaultMinRating)
      [] algorithm = "content" ->
            get_content_based_recommendations(user_id, limit, DefaultMinRating)
      [] OTHER ->
            get_hybrid_recommendations(user_id, limit, min_rating)

\* RecommendationRequestSerializer.is_valid
is_valid(algorithm, limit, min_rating) ==
    algorithm \in Algorithms /\ limit >= 1 /\ limit <= 50 /\ min_rating >= 0 /\ min_rating <= 100

\* RecommendationCacheManager.get_user_recommendations: cached_query over query_func
get_user_recommendations(user_id, algorithm, limit, min_rating, fail_at) ==
    cached_query(cache, recommendations_key(user_id, algorithm, limit, min_rating),
                 query_func(user_id, algorithm, limit, min_rating),
                 EngineRaises, fail_at)

\* The try / except of UserRecommendationsView.get around the outcome q of
\* get_user_recommendations
for_me_response(q, user_id, algorithm, limit, min_rating) ==
    IF ~q.raised
    THEN [status |-> 200, list |-> q.result, cached |-> TRUE, hit |-> q.hit,
          invoked |-> q.invoked, cache |-> q.cache, algorithm_used |-> algorithm]
    ELSE IF EngineRaises
    THEN [status |-> 500, list |-> <<>>, cached |-> FALSE, hit |-> FALSE,
          invoked |-> q.invoked, cache |-> q.cache, algorithm_used |-> "none"]
    ELSE [status |-> 200,
          list |-> direct_computation(user_id, algorithm, limit, min_rating),
          cached |-> FALSE, hit |-> FALSE, invoked |-> q.invoked + 1, cache |-> q.cache,
          algorithm_used |-> algorithm]

\* The response of the view and the cache content it leaves
for_me(user_id, algorithm, limit, min_rating, fail_at) ==
    IF ~is_valid(algorithm, limit, min_rating)
    THEN [status |-> 400, list |-> <<>>, cached |-> FALSE, hit |-> FALSE, invoked |-> 0,
          cache |-> cache]
    ELSE for_me_response(
             get_user_recommendations(user_id, algorithm, limit, min_rating, fail_at),
             user_id, algorithm, limit, min_rating)

(***************************************************************************)
(* MovieCacheManager.get_popular_movies and get_movie_stats                *)
(***************************************************************************)
\* ORDER BY popularity_score DESC
ByPopularity(a, b) ==
    popularity_score(a) > popularity_score(b)
    \/ (popularity_score(a) = popularity_score(b) /\ a < b)

popular_movies_query(limit) == Take(SortedBy(movies, ByPopularity), limit)

\* PopularMoviesView.get_queryset without filters: the ids of the movies it lists
popular_movies(limit, fail_at) ==
    LET q == cached_query(cache, movies_popular_key(limit), popular_movies_query(limit),
                          FALSE, fail_at)
    IN  IF ~q.raised
        THEN [status |-> 200, list |-> q.result, cached |-> TRUE, hit |-> q.hit,
              invoked |-> q.invoked, cache |-> q.cache]
        ELSE [status |-> 200, list |-> popular_movies_query(limit), cached |-> FALSE,
              hit |-> FALSE, invoked |-> q.invoked + 1, cache |-> q.cache]

\* query_func of get_popular_movies(limit, **filters): each filter that names an
\* attribute of Movie is applied as an exact match
popular_movies_filters_query(limit, filters) ==
    LET field(m, name) == IF name = "title" THEN title(m) ELSE description(m)
        matching == {m \in movies :
                        \A i \in 1..Len(filters) :
                            filters[i][1] \in {"title", "description"}
                                => field(m, filters[i][1]) = filters[i][2]}
    IN  Take(SortedBy(matching, ByPopularity), limit)

\* PopularMoviesView.get_queryset with the query parameters `filters`
popular_movies_filters(limit, filters, fail_at) ==
    LET q == cached_query(cache, movies_popular_filters_key(limit, filters),
                          popular_movies_filters_query(limit, filters), FALSE, fail_at)
    IN  IF ~q.raised
        THEN [status |-> 200, list |-> q.result, cached |-> TRUE, hit |-> q.hit,
              invoked |-> q.invoked, cache |-> q.cache]
        ELSE [status |-> 200, list |-> popular_movies_query(limit), cached |-> FALSE,
              hit |-> FALSE, invoked |-> q.invoked + 1, cache |-> q.cache]

\* round(avg, 2) of the scores of a movie, in hundredths; 0 without ratings
movie_stats_query(movie_id) ==
    [average_rating |->
        IF rating_count(movie_id) = 0 THEN 0
        ELSE (2 * 10 * rating_sum(movie_id) + rating_count(movie_id))
                 \div (2 * rating_count(movie_id)),
     total_ratings |-> rating_count(movie_id)]

get_movie_stats(movie_id, fail_at) ==
    LET q == cached_query(cache, movie_stats_key(movie_id), movie_stats_query(movie_id),
                          FALSE, fail_at)
    IN  [status |-> IF q.raised THEN 500 ELSE 200, list |-> q.result, cached |-> ~q.raised,
         hit |-> q.hit, invoked |-> q.invoked, cache |-> q.cache]

(***************************************************************************)
(* Similar movies (recommendations/views.py, SimilarMoviesView.get)        *)
(***************************************************************************)
SimilarMethods == {"genre", "tags", "rating", "combined"}

MinSimilarLimit == 1

MaxSimilarLimit == 30

common_genres(target_movie, m) == Cardinality(genres(m) \cap genres(target_movie))

common_tags(target_movie, m) == Cardinality(tags(m) \cap tags(target_movie))

\* genre_similar: the movies sharing a genre with the target, the target
\* excluded, by ('-common_genres', '-popularity_score'), cut at limit
genre_similar(target_movie, limit) ==
    LET Before(a, b) ==
            \/ common_genres(target_movie, a) > common_genres(target_movie, b)
            \/ /\ common_genres(target_movie, a) = common_genres(target_movie, b)
               /\ \/ popularity_score(a) > popularity_score(b)
                  \/ popularity_score(a) = popularity_score(b) /\ a < b
        rows == Take(SortedBy({m \in movies \ {target_movie} :
                                  common_genres(target_movie, m) >= 1}, Before), limit)
    IN  [i \in 1..Len(rows) |->
            Recommendation(rows[i], <<common_genres(target_movie, rows[i]), 1>>,
                           "genre_similarity")]

\* tag_similar: the same on tags, cut at limit // 2; not computed for a target
\* without tags
tag_similar(target_movie, limit) ==
    IF tags(target_movie) = {} THEN <<>>
    ELSE
    LET Before(a, b) ==
            \/ common_tags(target_movie, a) > common_tags(target_movie, b)
            \/ /\ common_tags(target_movie, a) = common_tags(target_movie, b)
               /\ \/ popularity_score(a) > popularity_score(b)
                  \/ popularity_score(a) = popularity_score(b) /\ a < b
        rows == Take(SortedBy({m \in movies \ {target_movie} :
                                  common_tags(target_movie, m) >= 1}, Before),
                     limit \div 2)
    IN  [i \in 1..Len(rows) |->
            Recommendation(rows[i], <<common_tags(target_movie, rows[i]), 1>>,
                           "tag_similarity")]

\* the loop over tag_similar without `if movie.id not in [...]`
append_tag_similar_without_check(similar_movies, rows) == similar_movies \o rows

\* The loop over tag_similar: a movie already in similar_movies is skipped
RECURSIVE append_tag_similar(_, _)
append_tag_similar(similar_movies, rows) ==
    IF rows = <<>> THEN similar_movies
    ELSE IF \E i \in 1..Len(similar_movies) : similar_movies[i].movie = Head(rows).movie
    THEN append_tag_similar(similar_movies, Tail(rows))
    ELSE append_tag_similar(Append(similar_movies, Head(rows)), Tail(rows))

\* similar_movies.sort(key=score, reverse=True): stable, entries of equal score
\* keep their order
sort_by_score(similar_movies) ==
    LET Before(i, j) ==
            \/ similar_movies[i].score[1] > similar_movies[j].score[1]
            \/ similar_movies[i].score[1] = similar_movies[j].score[1] /\ i < j
        order == SortedBy(1..Len(similar_movies), Before)
    IN  [k \in 1..Len(similar_movies) |-> similar_movies[order[k]]]

similar_movies(target_movie, method, limit) ==
    LET by_genre == IF method \in {"genre", "combined"}
                    THEN genre_similar(target_movie, limit) ELSE <<>>
        by_tags  == IF method \in {"tags", "combined"}
                    THEN tag_similar(target_movie, limit) ELSE <<>>
    IN  Take(sort_by_score(append_tag_similar(by_genre, by_tags)), limit)

\* SimilarMoviesView.get: 404 for an unknown movie, 400 for parameters the
\* serializer rejects
similar_movies_response(movie_id, method, limit) ==
    IF movie_id \notin movies THEN [status |-> 404, list |-> <<>>]
    ELSE IF method \notin SimilarMethods \/ limit < MinSimilarLimit \/ limit > MaxSimilarLimit
    THEN [status |-> 400, list |-> <<>>]
    ELSE [status |-> 200, list |-> similar_movies(movie_id, method, limit)]

(***************************************************************************)
(* Initial stores                                                          *)
(***************************************************************************)
NoRatings == [u \in UserIds |-> [m \in MovieIds |-> 0]]

\* User 1 has rated five movies; users 2 and 10 agree with user 1 on movies 1 and 2
\* and both like movie 6, which user 1 has not rated.
SeedRatings ==
    [u \in UserIds |-> [m \in MovieIds |->
        CASE u = 1 /\ m = 1 -> 50 [] u = 1 /\ m = 2 -> 40 [] u = 1 /\ m = 3 -> 20
          [] u = 1 /\ m = 4 -> 40 [] u = 1 /\ m = 5 -> 50
          [] u = 2 /\ m = 1 -> 50 [] u = 2 /\ m = 2 -> 40 [] u = 2 /\ m = 6 -> 50
          [] u = 10 /\ m = 1 -> 40 [] u = 10 /\ m = 2 -> 40 [] u = 10 /\ m = 6 -> 40
          [] u = 10 /\ m = 7 -> 50
          [] OTHER -> 0]]

EmptyStore == [ratings |-> NoRatings, favorites |-> {}, watch_history |-> {}]

RatedStore == [ratings |-> SeedRatings, favorites |-> {<<2, 3>>}, watch_history |-> {<<1, 6>>}]

\* User 1 has rated five movies and made movie 6 a favorite; nobody has rated
\* movie 6, and users 2 and 10 both like movie 7.
HybridRatings ==
    [u \in UserIds |-> [m \in MovieIds |->
        CASE u = 1 /\ m = 1 -> 50 [] u = 1 /\ m = 2 -> 40 [] u = 1 /\ m = 3 -> 20
          [] u = 1 /\ m = 4 -> 40 [] u = 1 /\ m = 5 -> 50
          [] u = 2 /\ m = 1 -> 50 [] u = 2 /\ m = 2 -> 40 [] u = 2 /\ m = 7 -> 50
          [] u = 10 /\ m = 1 -> 40 [] u = 10 /\ m = 2 -> 40 [] u = 10 /\ m = 7 -> 40
          [] OTHER -> 0]]

HybridStore == [ratings |-> HybridRatings, favorites |-> {<<1, 6>>}, watch_history |-> {}]

\* User 1 and user 2 disagree on the two movies both have rated; user 10 shares
\* no movie with user 1 and agrees with user 2 on two movies.
LonerRatings ==
    [u \in UserIds |-> [m \in MovieIds |->
        CASE u = 1 /\ m = 1 -> 50 [] u = 1 /\ m = 2 -> 50 [] u = 1 /\ m = 3 -> 40
          [] u = 2 /\ m = 1 -> 20 [] u = 2 /\ m = 2 -> 20 [] u = 2 /\ m = 4 -> 50
          [] u = 2 /\ m = 5 -> 40
          [] u = 10 /\ m = 4 -> 50 [] u = 10 /\ m = 5 -> 40
          [] OTHER -> 0]]

LonerStore == [ratings |-> LonerRatings, favorites |-> {}, watch_history |-> {}]

Seeds == {EmptyStore, RatedStore, HybridStore, LonerStore}

Blank ==
    [op |-> "none", user |-> AnonymousUser, movie |-> 0, algorithm |-> "none", limit |-> 0,
     min_rating |-> 0, key |-> <<>>, status |-> 0, list |-> <<>>, cached |-> FALSE,
     hit |-> FALSE, invoked |-> 0, repeat |-> FALSE, prev_list |-> <<>>,
     prev_invoked |-> 0, prev_hit |-> FALSE, before |-> <<>>, algorithm_used |-> "none"]

NoCall == [user |-> AnonymousUser, algorithm |-> "none", limit |-> 0, min_rating |-> 0,
           list |-> <<>>, scanned |-> {}, found |-> <<>>, neighbours |-> <<>>]

Idle == [phase |-> "idle", user |-> AnonymousUser, algorithm |-> "none", limit |-> 0,
         min_rating |-> 0, result |-> <<>>]

InitFrom(seeds) ==
    /\ movies = MovieIds
    /\ \E seed \in seeds :
          /\ ratings = seed.ratings
          /\ favorites = seed.favorites
          /\ watch_history = seed.watch_history
    /\ cache = Restrict(<<>>, {})
    /\ inflight = Idle
    /\ backend = "up"
    /\ engine_api \in EngineApis
    /\ last = Blank
    /\ nwrites = 0
    /\ nreq = 0
    /\ rec = NoCall

Init == InitFrom({RatedStore})

InitAll == InitFrom(Seeds)

(***************************************************************************)
(* Read requests                                                           *)
(***************************************************************************)
ReqUsers == {1, 10}
ReqLimits == {2}
PopularLimits == {2}

\* The response r of a read request for `key`; `repeat` tells that the request
\* handled just before was the same one.
Answered(op, user, movie, algorithm, limit, min_rating, key, r) ==
    LET repeat == last.op = op /\ last.key = key
    IN  /\ last' = [op |-> op, user |-> user, movie |-> movie, algorithm |-> algorithm,
                    limit |-> limit, min_rating |-> min_rating, key |-> key,
                    status |-> r.status, list |-> r.list, cached |-> r.cached,
                    hit |-> r.hit, invoked |-> r.invoked, repeat |-> repeat,
                    prev_list |-> IF repeat THEN last.list ELSE <<>>,
                    prev_invoked |-> IF repeat THEN last.invoked ELSE 0,
                    prev_hit |-> IF repeat THEN last.hit ELSE FALSE,
                    before |-> <<>>,
                    algorithm_used |-> IF "algorithm_used" \in DOMAIN r
                                       THEN r.algorithm_used ELSE "none"]
        /\ cache' = r.cache
        /\ nreq' = nreq + 1

ForMe(user_id, algorithm, limit, min_rating) ==
    /\ nreq < MaxRequests
    /\ \E fail_at \in FailPoints :
          Answered("for_me", user_id, 0, algorithm, limit, min_rating,
                   recommendations_key(user_id, algorithm, limit, min_rating),
                   for_me(user_id, algorithm, limit, min_rating, fail_at))
    /\ UNCHANGED <<store, backend, engine_api, nwrites, rec, inflight>>

PopularMovies(limit) ==
    /\ nreq < MaxRequests
    /\ \E fail_at \in FailPoints :
          Answered("popular", AnonymousUser, 0, "none", limit, 0,
                   movies_popular_key(limit), popular_movies(limit, fail_at))
    /\ UNCHANGED <<store, backend, engine_api, nwrites, rec, inflight>>

\* GET /movies/popular/?limit=..&name=value..: the query parameters other than
\* page, page_size and limit are the filters, in the order given; rec.found
\* keeps them
FilterNames == {"description", "title"}

FilterValues == {<<"x">>, <<"y">>, <<"y", ":", "title", "=", "x">>}

FilterLists ==
    {<<>>}
    \cup {<< <<n, v>> >> : n \in FilterNames, v \in FilterValues}
    \cup {<< <<n, v1>>, <<CHOOSE o \in FilterNames : o # n, v2>> >> :
             n \in FilterNames, v1 \in FilterValues, v2 \in FilterValues}

PopularMoviesFiltered(limit, filters) ==
    /\ nreq < MaxRequests
    /\ \E fail_at \in FailPoints :
          Answered("popular", AnonymousUser, 0, "none", limit, 0,
                   movies_popular_filters_key(limit, filters),
                   popular_movies_filters(limit, filters, fail_at))
    /\ rec' = [NoCall EXCEPT !.algorithm = "popular_movies", !.limit = limit,
                             !.found = filters]
    /\ UNCHANGED <<store, backend, engine_api, nwrites, inflight>>

GetMovieStats(movie_id) ==
    /\ nreq < MaxRequests
    /\ \E fail_at \in FailPoints :
          Answered("movie_stats", AnonymousUser, movie_id, "none", 0, 0,
                   movie_stats_key(movie_id), get_movie_stats(movie_id, fail_at))
    /\ UNCHANGED <<store, backend, engine_api, nwrites, rec, inflight>>

\* The same request, step by step, as it runs next to other requests.  cached_query
\* is a cache.get, the call of query_func, which reads the store, and a cache.set;
\* other handlers can run between them.  A get that hits or raises ends the
\* request with no further step (action ForMe).
ForMeGet(user_id, algorithm, limit, min_rating) ==
    /\ nreq < MaxRequests
    /\ inflight = Idle
    /\ is_valid(algorithm, limit, min_rating)
    /\ ~CacheRaises
    /\ recommendations_key(user_id, algorithm, limit, min_rating) \notin DOMAIN cache
    /\ inflight' = [phase |-> "missed", user |-> user_id, algorithm |-> algorithm,
                    limit |-> limit, min_rating |-> min_rating, result |-> <<>>]
    /\ UNCHANGED <<store, cache, backend, engine_api, last, nwrites, nreq, rec>>

\* query_func(): with the engine as written it raises, and so does the except
\* branch of the view (500)
ForMeQuery ==
    /\ inflight.phase = "missed"
    /\ IF EngineRaises
       THEN /\ Answered("for_me", inflight.user, 0, inflight.algorithm, inflight.limit,
                        inflight.min_rating,
                        recommendations_key(inflight.user, inflight.algorithm,
                                            inflight.limit, inflight.min_rating),
                        [status |-> 500, list |-> <<>>, cached |-> FALSE, hit |-> FALSE,
                         invoked |-> 0, cache |-> cache])
            /\ inflight' = Idle
       ELSE /\ inflight' = [inflight EXCEPT
                                !.phase = "computed",
                                !.result = query_func(inflight.user, inflight.algorithm,
                                                      inflight.limit, inflight.min_rating)]
            /\ UNCHANGED <<cache, last, nreq>>
    /\ UNCHANGED <<store, backend, engine_api, nwrites, rec>>

\* cache.set(cache_key, result, timeout) and the response
ForMeSet ==
    /\ inflight.phase = "computed"
    /\ LET key == recommendations_key(inflight.user, inflight.algorithm, inflight.limit,
                                      inflight.min_rating)
           q == IF CacheRaises
                THEN [raised |-> TRUE, hit |-> FALSE, result |-> <<>>, invoked |-> 1,
                      cache |-> cache]
                ELSE [raised |-> FALSE, hit |-> FALSE, result |-> inflight.result,
                      invoked |-> 1, cache |-> cache_set(cache, key, inflight.result)]
       IN  Answered("for_me", inflight.user, 0, inflight.algorithm, inflight.limit,
                    inflight.min_rating, key,
                    for_me_response(q, inflight.user, inflight.algorithm, inflight.limit,
                                    inflight.min_rating))
    /\ inflight' = Idle
    /\ UNCHANGED <<store, backend, engine_api, nwrites, rec>>

\* GET /recommendations/movies/{movie_id}/similar: the view reads the store and
\* uses no cache
SimilarMovies(movie_id, method, limit) ==
    /\ nreq < MaxRequests
    /\ LET r == similar_movies_response(movie_id, method, limit)
       IN  last' = [Blank EXCEPT !.op = "similar", !.movie = movie_id,
                                !.algorithm = method, !.limit = limit,
                                !.status = r.status, !.list = r.list]
    /\ nreq' = nreq + 1
    /\ UNCHANGED <<store, cache, backend, engine_api, nwrites, rec, inflight>>

\* A direct call of a strategy of the engine on the current store; rec is the
\* last call made since the last write
EngineCall(user, algorithm, limit, min_rating) ==
    /\ rec = NoCall
    /\ rec' = [user |-> user, algorithm |-> algorithm, limit |-> limit,
               min_rating |-> min_rating,
               list |-> strategy(algorithm, user, limit, min_rating),
               scanned |-> scans(algorithm, user),
               found |-> finds(algorithm, user),
               neighbours |-> top_similar_users(finds(algorithm, user))]
    /\ UNCHANGED <<store, cache, backend, engine_api, last, nwrites, nreq, inflight>>

\* Line 109 of genre_based on a counter of a catalogue with more genres than the
\* store holds; rec.found is the counter, rec.neighbours the keys selected
CounterSizes == {5, 6}

CounterKeys == <<"Action", "Comedy", "Drama", "Horror", "Romance", "Thriller">>

Counters ==
    {[i \in 1..n |-> <<CounterKeys[i], IF i = k THEN 40 ELSE 50 + 10 * i>>] :
        n \in CounterSizes, k \in {1, 4, 7}}

MostCommon(counter) ==
    /\ rec = NoCall
    /\ rec' = [NoCall EXCEPT !.algorithm = "most_common", !.found = counter,
                             !.neighbours = most_common(counter, TopGenreCount)]
    /\ UNCHANGED <<store, cache, backend, engine_api, last, nwrites, nreq, inflight>>

\* Line 177 of collaborative_filtering on a list similar_users of a database
\* with more users than the store holds
CrowdSizes == {10, 11}

CrowdLists ==
    {[i \in 1..n |-> <<10 + i, IF i = k THEN <<60, 80>> ELSE <<80, 80>> >>] :
        n \in CrowdSizes, k \in {1, 6, 12}}

SortSimilarUsers(found) ==
    /\ rec = NoCall
    /\ rec' = [NoCall EXCEPT !.algorithm = "sorted", !.found = found,
                             !.neighbours = top_similar_users(found)]
    /\ UNCHANGED <<store, cache, backend, engine_api, last, nwrites, nreq, inflight>>

\* Lines 179-202 of collaborative_filtering on the ratings of three selected
\* neighbours, more than the store has users for: rec.found holds, per
\* neighbour, the id and the scores given to the movies 1..7
CrowdUsers == <<2, 10, 12>>

CrowdRated == {5}

CrowdScores ==
    {[m \in MovieIds |-> CASE m = 5 -> 50 [] m = 6 -> a [] m = 7 -> b [] OTHER -> 0] :
        a \in {0, 40, 50}, b \in {20, 50}}

\* the first neighbour gave 5 to each of the three movies
CrowdRatings ==
    {[i \in 1..3 |-> <<CrowdUsers[i],
                       IF i = 1 THEN [m \in MovieIds |-> IF m \in {5, 6, 7} THEN 50 ELSE 0]
                       ELSE c[i]>>] : c \in [2..3 -> CrowdScores]}

RecommendedMovies(found, limit, min_rating) ==
    /\ rec = NoCall
    /\ LET r == [o \in {found[i][1] : i \in 1..Len(found)} |->
                    found[CHOOSE i \in 1..Len(found) : found[i][1] = o][2]]
       IN  rec' = [NoCall EXCEPT
                      !.algorithm = "recommended_movies", !.limit = limit,
                      !.min_rating = min_rating, !.found = found,
                      !.neighbours = [i \in 1..Len(found) |-> found[i][1]],
                      !.list = recommended_movies(r, DOMAIN r, CrowdRated, limit,
                                                  min_rating)]
    /\ UNCHANGED <<store, cache, backend, engine_api, last, nwrites, nreq, inflight>>

(***************************************************************************)
(* Writes: the views of ratings/views.py and the Movie admin views, each   *)
(* with the post_save / post_delete receiver it triggers.  A receiver that *)
(* raises makes the request fail; a save() has committed its row by then,  *)
(* a delete() and update_or_create() run the receiver inside their         *)
(* transaction and are rolled back.                                        *)
(***************************************************************************)
\* `before` keeps the cache content the write found
Written(op, user, movie, status) ==
    /\ last' = [Blank EXCEPT !.op = op, !.user = user, !.movie = movie,
                             !.status = status, !.before = cache]
    /\ nwrites' = nwrites + 1
    /\ rec' = NoCall
    /\ UNCHANGED inflight

RECURSIVE invalidate_users(_, _)
invalidate_users(c, users) ==
    IF users = {} THEN c
    ELSE LET u == CHOOSE x \in users : TRUE
         IN  invalidate_users(
                 invalidate_user_recommendations(invalidate_user_cache(c, u), u),
                 users \ {u})

\* RateMovieView.post: create or update the rating of (user, movie)
RateMovie(user_id, movie_id, score) ==
    /\ nwrites < MaxWrites
    /\ movie_id \in movies
    /\ ratings' = [ratings EXCEPT ![user_id][movie_id] = score]
    /\ cache' = invalidate_rating_cache_on_change(cache, user_id, movie_id)
    /\ Written("rate", user_id, movie_id, IF CacheRaises THEN 500 ELSE 200)
    /\ UNCHANGED <<movies, favorites, watch_history, backend, engine_api, nreq>>

\* RateMovieView.delete
DeleteRating(user_id, movie_id) ==
    /\ nwrites < MaxWrites
    /\ movie_id \in movies
    /\ ratings[user_id][movie_id] # 0
    /\ ratings' = IF CacheRaises THEN ratings
                  ELSE [ratings EXCEPT ![user_id][movie_id] = 0]
    /\ cache' = invalidate_rating_cache_on_change(cache, user_id, movie_id)
    /\ Written("unrate", user_id, movie_id, IF CacheRaises THEN 500 ELSE 200)
    /\ UNCHANGED <<movies, favorites, watch_history, backend, engine_api, nreq>>

\* ToggleFavoriteView.post
ToggleFavorite(user_id, movie_id) ==
    /\ nwrites < MaxWrites
    /\ movie_id \in movies
    /\ favorites' =
          IF <<user_id, movie_id>> \in favorites
          THEN (IF CacheRaises THEN favorites ELSE favorites \ {<<user_id, movie_id>>})
          ELSE favorites \cup {<<user_id, movie_id>>}
    /\ cache' = invalidate_favorite_cache_on_change(cache, user_id, movie_id)
    /\ Written("favorite", user_id, movie_id,
               IF CacheRaises THEN 500
               ELSE IF <<user_id, movie_id>> \in favorites THEN 200 ELSE 201)
    /\ UNCHANGED <<movies, ratings, watch_history, backend, engine_api, nreq>>

\* AddToWatchHistoryView.post: update_or_create
AddToWatchHistory(user_id, movie_id) ==
    /\ nwrites < MaxWrites
    /\ movie_id \in movies
    /\ watch_history' = IF CacheRaises THEN watch_history
                        ELSE watch_history \cup {<<user_id, movie_id>>}
    /\ cache' = invalidate_watch_history_cache_on_change(cache, user_id, movie_id)
    /\ Written("watch", user_id, movie_id,
               IF CacheRaises THEN 500
               ELSE IF <<user_id, movie_id>> \in watch_history THEN 200 ELSE 201)
    /\ UNCHANGED <<movies, ratings, favorites, backend, engine_api, nreq>>

\* RemoveFromWatchHistoryView.delete
RemoveFromWatchHistory(user_id, movie_id) ==
    /\ nwrites < MaxWrites
    /\ movie_id \in movies
    /\ <<user_id, movie_id>> \in watch_history
    /\ watch_history' = IF CacheRaises THEN watch_history
                        ELSE watch_history \ {<<user_id, movie_id>>}
    /\ cache' = invalidate_watch_history_cache_on_change(cache, user_id, movie_id)
    /\ Written("unwatch", user_id, movie_id, IF CacheRaises THEN 500 ELSE 200)
    /\ UNCHANGED <<movies, ratings, favorites, backend, engine_api, nreq>>

\* Movie create / update (post_save of movies.Movie)
SaveMovie(movie_id) ==
    /\ nwrites < MaxWrites
    /\ movies' = movies \cup {movie_id}
    /\ cache' = invalidate_movie_cache_on_change(cache, movie_id)
    /\ Written("save_movie", AnonymousUser, movie_id, IF CacheRaises THEN 500 ELSE 200)
    /\ UNCHANGED <<ratings, favorites, watch_history, backend, engine_api, nreq>>

\* Movie delete: the rows that reference the movie are deleted with it
\* (on_delete=CASCADE), each sending its own post_delete
DeleteMovie(movie_id) ==
    /\ nwrites < MaxWrites
    /\ movie_id \in movies
    /\ IF CacheRaises
       THEN UNCHANGED <<movies, ratings, favorites, watch_history>>
       ELSE /\ movies' = movies \ {movie_id}
            /\ ratings' = [u \in UserIds |-> [ratings[u] EXCEPT ![movie_id] = 0]]
            /\ favorites' = {f \in favorites : f[2] # movie_id}
            /\ watch_history' = {w \in watch_history : w[2] # movie_id}
    /\ cache' =
          LET raters == {u \in UserIds : ratings[u][movie_id] # 0}
              others == {u \in UserIds : <<u, movie_id>> \in favorites \cup watch_history}
              c1 == invalidate_users(cache, raters \cup others)
              c2 == IF raters = {} THEN c1 ELSE invalidate_movie_cache(c1, movie_id)
          IN  invalidate_movie_cache_on_change(c2, movie_id)
    /\ Written("delete_movie", AnonymousUser, movie_id, IF CacheRaises THEN 500 ELSE 200)
    /\ UNCHANGED <<backend, engine_api, nreq>>

(***************************************************************************)
(* The environment of the cache: entries expire, the backend fails         *)
(***************************************************************************)
Expire(key) ==
    /\ key \in DOMAIN cache
    /\ cache' = Restrict(cache, DOMAIN cache \ {key})
    /\ last' = [Blank EXCEPT !.op = "expire", !.key = key]
    /\ UNCHANGED <<store, backend, engine_api, nwrites, nreq, rec, inflight>>

BackendChange(b) ==
    /\ b # backend
    /\ backend' = b
    /\ last' = [Blank EXCEPT !.op = "backend"]
    /\ UNCHANGED <<store, cache, engine_api, nwrites, nreq, rec, inflight>>

Write(write_movies) ==
    \E u \in UserIds, m \in write_movies :
        \/ \E s \in Scores : RateMovie(u, m, s)
        \/ DeleteRating(u, m)
        \/ ToggleFavorite(u, m)
        \/ AddToWatchHistory(u, m)
        \/ RemoveFromWatchHistory(u, m)
        \/ SaveMovie(m)
        \/ DeleteMovie(m)

(***************************************************************************)
(* Specifications                                                          *)
(***************************************************************************)
\* The for-me endpoint, the writes and the cache backend
Next ==
    \/ \E u \in ReqUsers, a \in Algorithms, l \in ReqLimits, r \in MinRatings : ForMe(u, a, l, r)
    \/ Write(ForMeWriteMovies)
    \/ \E k \in DOMAIN cache : Expire(k)
    \/ \E b \in Backends : BackendChange(b)

Spec == Init /\ [][Next]_vars

\* The for-me requests that differ in user and algorithm only, the writes and the
\* cache backend: what the invalidation of a user's entries depends on
InvalidationAlgorithms == {"popularity", "genre"}

NextInvalidation ==
    \/ \E u \in ReqUsers, a \in InvalidationAlgorithms, l \in ReqLimits :
          ForMe(u, a, l, DefaultMinRating)
    \/ Write(ForMeWriteMovies)
    \/ \E b \in Backends : BackendChange(b)

SpecInvalidation == Init /\ [][NextInvalidation]_vars

\* Cached lists of two users and of the popular movies, and the writes of the
\* users whose receivers invalidate by user id
FrameAlgorithms == {"popularity"}

NextFrame ==
    \/ \E u \in ReqUsers, a \in FrameAlgorithms, l \in ReqLimits :
          ForMe(u, a, l, DefaultMinRating)
    \/ \E l \in PopularLimits : PopularMovies(l)
    \/ \E u \in UserIds, m \in ForMeWriteMovies :
          \/ \E s \in Scores : RateMovie(u, m, s)
          \/ ToggleFavorite(u, m)
          \/ AddToWatchHistory(u, m)

SpecFrame == Init /\ [][NextFrame]_vars

\* collaborative_filtering on two users who have rated the same movies with
\* scores from the whole range the Rating model accepts
ValidScores == {5, 25, 50}

ScoreRatings ==
    {[u \in UserIds |-> [m \in MovieIds |->
        CASE u = 1 /\ m = 1 -> a [] u = 1 /\ m = 2 -> b [] u = 1 /\ m = 3 -> 40
          [] u = 2 /\ m = 1 -> c [] u = 2 /\ m = 2 -> d [] u = 2 /\ m = 4 -> 40
          [] OTHER -> 0]] : a, b, c, d \in ValidScores}

ScoreSeeds == {[ratings |-> r, favorites |-> {}, watch_history |-> {}] : r \in ScoreRatings}

NextSimilarity ==
    \E u \in {1, 2}, l \in ReqLimits : EngineCall(u, "collaborative", l, DefaultMinRating)

InitSimilarity == InitFrom(ScoreSeeds) /\ engine_api = "views_py"

SpecSimilarity == InitSimilarity /\ [][NextSimilarity]_vars

\* The strategies of the engine, called directly on every store
NextEngine ==
    \/ \E u \in UserIds \cup {AnonymousUser}, a \in Algorithms, l \in Limits, r \in MinRatings :
          EngineCall(u, a, l, r)
    \/ Write(WriteMovies)

EngineSeeds == {EmptyStore, RatedStore, HybridStore}

InitEngine == InitFrom(EngineSeeds) /\ engine_api = "views_py"

SpecEngine == InitEngine /\ [][NextEngine]_vars

\* The for-me endpoint asked for the strategies that can hand over to a simpler
\* one, for users with little or no data
FallbackAlgorithms == {"genre", "collaborative", "content"}

NextFallback ==
    \/ \E u \in ReqUsers, a \in FallbackAlgorithms, l \in ReqLimits :
          ForMe(u, a, l, DefaultMinRating)
    \/ \E u \in UserIds, m \in ForMeWriteMovies :
          \/ \E s \in Scores : RateMovie(u, m, s)
          \/ ToggleFavorite(u, m)
          \/ AddToWatchHistory(u, m)

InitFallback == InitFrom({EmptyStore, LonerStore})

SpecFallback == InitFallback /\ [][NextFallback]_vars

\* For-me requests of one user that run next to that user's Rating writes
RaceUser == 1

RaceAlgorithms == {"popularity", "genre", "collaborative"}

\* a movie the user has rated and one the user has not
RaceMovies == {5, 6}

NextRace ==
    \/ \E a \in RaceAlgorithms, l \in ReqLimits :
          \/ ForMeGet(RaceUser, a, l, DefaultMinRating)
          \/ ForMe(RaceUser, a, l, DefaultMinRating)
    \/ ForMeQuery
    \/ ForMeSet
    \/ \E m \in RaceMovies :
          \/ \E s \in Scores : RateMovie(RaceUser, m, s)
          \/ DeleteRating(RaceUser, m)

SpecRace == Init /\ [][NextRace]_vars

\* One strategy of the engine, called directly on every store
OneStrategy(algorithm) ==
    \/ \E u \in UserIds \cup {AnonymousUser}, l \in Limits, r \in MinRatings :
          EngineCall(u, algorithm, l, r)
    \/ Write(WriteMovies)

InitStrategy == InitAll /\ engine_api = "views_py"

NextGenre == OneStrategy("genre")

SpecGenre == InitStrategy /\ [][NextGenre]_vars

NextTopGenres ==
    \/ OneStrategy("genre")
    \/ \E counter \in Counters : MostCommon(counter)

SpecTopGenres == InitStrategy /\ [][NextTopGenres]_vars

NextCollaborative == OneStrategy("collaborative")

SpecCollaborative == InitStrategy /\ [][NextCollaborative]_vars

NextNeighbours ==
    \/ OneStrategy("collaborative")
    \/ \E found \in CrowdLists : SortSimilarUsers(found)

SpecNeighbours == InitStrategy /\ [][NextNeighbours]_vars

NextHybrid == OneStrategy("hybrid")

NextContent == OneStrategy("content")

SpecContent == InitStrategy /\ [][NextContent]_vars

NextSupporters ==
    \/ OneStrategy("collaborative")
    \/ \E found \in CrowdRatings, l \in ReqLimits : RecommendedMovies(found, l, DefaultMinRating)

SpecSupporters == InitStrategy /\ [][NextSupporters]_vars

\* The similar-movies endpoint on a catalogue that changes
RequestedMethods == SimilarMethods \cup {"plot"}

SimilarLimits == {0, 1, 2, 3, 6}

NextSimilar ==
    \/ \E m \in MovieIds, method \in RequestedMethods, l \in SimilarLimits :
          SimilarMovies(m, method, l)
    \/ \E m \in MovieIds : SaveMovie(m) \/ DeleteMovie(m)

InitSimilar == InitFrom({EmptyStore}) /\ engine_api = "views_py"

SpecSimilar == InitSimilar /\ [][NextSimilar]_vars

SpecHybrid == InitStrategy /\ [][NextHybrid]_vars

\* The movie caches (popular movies, movie statistics) and the writes
NextMovieCache ==
    \/ \E l \in PopularLimits : PopularMovies(l)
    \/ \E m \in WriteMovies : GetMovieStats(m)
    \/ Write(WriteMovies)
    \/ \E b \in Backends : BackendChange(b)

\* The popular movies asked for with filters
NextFilters ==
    \E l \in PopularLimits, filters \in FilterLists : PopularMoviesFiltered(l, filters)

\* The movie caches do not use the engine
InitMovieCache == InitFrom({EmptyStore, RatedStore}) /\ engine_api = "views_py"

SpecMovieCache == InitMovieCache /\ [][NextMovieCache]_vars

SpecFilters == InitMovieCache /\ [][NextFilters]_vars

(***************************************************************************)
(* Properties of the strategies, called directly (SpecEngine)              *)
(***************************************************************************)
Called == rec # NoCall

MovieIdsOf(list) == [i \in 1..Len(list) |-> list[i].movie]

HasDuplicates(seq) == \E i, j \in 1..Len(seq) : i # j /\ seq[i] = seq[j]

\* C8: every strategy, called with a limit of at least 1, returns a list of at
\* most `limit` recommendations.
C8_AtMostLimit == (Called /\ rec.limit >= 1) => Len(rec.list) <= rec.limit

\* A hybrid call for a user with five ratings whose four partial lists together
\* hold more than `limit` distinct movies, and whose result has `limit` items
C8_Witness ==
    /\ Called /\ rec.algorithm = "hybrid" /\ rec.user # AnonymousUser
    /\ rec.limit = 3
    /\ Cardinality(RatedBy(rec.user)) >= HybridMinRatings
    /\ Len(merge_recs_without_break(
               popularity_based(rec.user, 1, rec.min_rating)
                   \o genre_based(rec.user, 1, rec.min_rating)
                   \o collaborative_filtering(rec.user, 1, rec.min_rating)
                   \o content_based(rec.user, 1, rec.min_rating),
               1, {}, <<>>, rec.limit)) > rec.limit
    /\ Len(rec.list) = rec.limit

\* C10: no strategy returns the same movie id twice, the hybrid merge of the four
\* partial lists included.
C10_NoDuplicateMovies == Called => ~HasDuplicates(MovieIdsOf(rec.list))

\* A hybrid call whose popularity and genre lists share a movie
C10_Witness ==
    /\ Called /\ rec.algorithm = "hybrid" /\ rec.user # AnonymousUser
    /\ HasDuplicates(MovieIdsOf(
           popularity_based(rec.user, rec.limit \div 2, rec.min_rating)
               \o genre_based(rec.user, rec.limit \div 2, rec.min_rating)))
    /\ Len(rec.list) >= 2

(***************************************************************************)
(* Properties of the movie caches (SpecMovieCache)                         *)
(***************************************************************************)
RatingWrites == {"rate", "unrate"}
FavoriteWrites == {"favorite"}
WatchHistoryWrites == {"watch", "unwatch"}
MovieWrites == {"save_movie", "delete_movie"}

Succeeded == last.status \in {200, 201}

\* The popularity and trending entries of cache content c
PopularityEntries(c) ==
    {k \in DOMAIN c : \/ Contains(k, <<"movie", "s", "_", "popular">>)
                      \/ Contains(k, <<"movie", "s", "_", "trending">>)}

C5_NoMovieEntrySurvives ==
    /\ (last.op \in RatingWrites \cup MovieWrites /\ Succeeded)
          => movie_stats_key(last.movie) \notin DOMAIN cache
    /\ (last.op = "movie_stats" /\ last.status = 200)
          => last.list = movie_stats_query(last.movie)

\* A Rating write on a movie whose statistics were in the cache
C5_Witness ==
    /\ last.op \in RatingWrites /\ Succeeded /\ backend = "up"
    /\ movie_stats_key(last.movie) \in DOMAIN last.before

(***************************************************************************)
(* Properties of GET /recommendations/for-me (Spec)                        *)
(***************************************************************************)
UserWrites == RatingWrites \cup FavoriteWrites \cup WatchHistoryWrites

ValidForMe ==
    last.op = "for_me" /\ is_valid(last.algorithm, last.limit, last.min_rating)

\* The entries of the recommendations of user u in cache content c
UserEntries(c, u) ==
    LET prefix == <<"recommendations", ":">> \o IntStr(u) \o <<":">>
    IN  {k \in DOMAIN c : Len(k) >= Len(prefix) /\ SubSeq(k, 1, Len(prefix)) = prefix}

\* C1: a for-me request of an authenticated user with valid parameters answers 200
\* for each of the five algorithms, whatever the store and the cache contain.
C1_ForMeAnswers200 == ValidForMe => last.status = 200

\* C2: a list served from the cache equals what the dispatch computes for the same
\* request on the current store, whoever wrote to the store since it was cached.
C2_CacheCoherent ==
    (last.op = "for_me" /\ last.status = 200 /\ last.hit)
        => last.list = query_func(last.user, last.algorithm, last.limit, last.min_rating)

C6_SecondServedFromCache ==
    (last.op = "for_me" /\ last.repeat /\ backend # "down" /\ ~last.prev_hit)
        => /\ last.status = 200
           /\ last.hit
           /\ last.list = last.prev_list
           /\ last.prev_invoked + last.invoked = 1

\* C7: when the cache backend raises during a for-me request, the request answers
\* 200 with the list the requested strategy computes for the same user, limit
\* and min_rating.
C7_CacheFailureDegrades ==
    (ValidForMe /\ backend = "down")
        => /\ last.status = 200
           /\ last.list = strategy(last.algorithm, last.user, last.limit, last.min_rating)

\* C9: every movie of a for-me response has imdb_rating >= min_rating.
C9_MinRatingRespected ==
    (last.op = "for_me" /\ last.status = 200)
        => \A i \in 1..Len(last.list) : MinRatingOk(last.list[i].movie, last.min_rating)

(***************************************************************************)
(* Order of the scores (SpecEngine)                                        *)
(***************************************************************************)
\* score a >= score b, for scores given as fractions with positive denominators
ScoreGeq(a, b) == a[1] * b[2] >= b[1] * a[2]

NonIncreasing(list) ==
    \A i \in 1..(Len(list) - 1) : ScoreGeq(list[i].score, list[i + 1].score)

HybridMerge == Called /\ rec.algorithm = "hybrid" /\ rec.user # AnonymousUser

\* C11, as the spec states it: in the list of every strategy, hybrid included, the
\* scores are non-increasing from the first item to the last.
C11_ScoresNonIncreasing == Called => NonIncreasing(rec.list)

\* C11, amended: the scores are non-increasing in the lists of popularity_based,
\* genre_based, collaborative_filtering and content_based and of their fallbacks;
\* the hybrid merge keeps the order popularity, genre, collaborative, content.
C11_SingleStrategyScoresNonIncreasing ==
    (Called /\ ~HybridMerge) => NonIncreasing(rec.list)

\* A content_based list of two movies of different score
C11_Witness ==
    /\ Called /\ rec.algorithm = "content" /\ Len(rec.list) >= 2
    /\ rec.list[1].algorithm = "content"
    /\ ~ScoreGeq(rec.list[2].score, rec.list[1].score)

(***************************************************************************)
(* genre_based and the fallbacks (SpecEngine)                              *)
(***************************************************************************)
\* The last call was genre_based and it did not fall back to popularity_based
GenreOwnList ==
    /\ Called /\ rec.algorithm = "genre" /\ rec.user # AnonymousUser
    /\ \E g \in GenreIds : genre_scores(rec.user)[g] > 0

\* C12: genre_based, when it does not fall back, returns no movie the user has
\* rated, with any score, or made a favorite.
C12_GenreExcludesRatedAndFavorites ==
    GenreOwnList =>
        \A i \in 1..Len(rec.list) :
            /\ rec.list[i].movie \notin RatedBy(rec.user)
            /\ <<rec.user, rec.list[i].movie>> \notin favorites

\* A genre_based call of a user who has rated a movie of their top genres below 4
C12_Witness ==
    /\ GenreOwnList
    /\ \E m \in RatedBy(rec.user) :
          /\ ratings[rec.user][m] < 40
          /\ genres(m) \cap top_genres(rec.user) # {}

\* C13: for an anonymous user and for a user without ratings and favorites,
\* genre_based returns the list of popularity_based for the same limit and
\* min_rating, its items tagged 'popularity'.
C13_GenreFallsBackToPopularity ==
    (/\ Called /\ rec.algorithm = "genre"
     /\ \/ rec.user = AnonymousUser
        \/ /\ RatedBy(rec.user) = {}
           /\ \A m \in movies : <<rec.user, m>> \notin favorites)
        => /\ rec.list = popularity_based(AnonymousUser, rec.limit, rec.min_rating)
           /\ \A i \in 1..Len(rec.list) : rec.list[i].algorithm = "popularity"

\* A genre_based call of an authenticated user without ratings and favorites on a
\* store where popularity_based lists a movie
C13_Witness ==
    /\ Called /\ rec.algorithm = "genre" /\ rec.user # AnonymousUser
    /\ RatedBy(rec.user) = {}
    /\ \A m \in movies : <<rec.user, m>> \notin favorites
    /\ Len(rec.list) >= 1

(***************************************************************************)
(* collaborative_filtering (SpecEngine)                                    *)
(***************************************************************************)
CollaborativeCall == Called /\ rec.algorithm = "collaborative" /\ rec.user # AnonymousUser

\* C14: for an authenticated user with fewer than 3 ratings collaborative_filtering
\* returns the list of genre_based for the same limit and min_rating and scans no
\* other user's ratings; it returns the list of genre_based too when the scan
\* finds no similar user.
C14_CollaborativeFallsBackToGenre ==
    CollaborativeCall =>
        /\ Cardinality(RatedBy(rec.user)) < MinUserRatings
              => /\ rec.list = genre_based(rec.user, rec.limit, rec.min_rating)
                 /\ rec.scanned = {}
        /\ similar_users(rec.user) = {}
              => rec.list = genre_based(rec.user, rec.limit, rec.min_rating)

\* A call for a user with exactly 2 ratings, both shared with another user who
\* rates alike, and a genre_based list that is not empty
C14_Witness ==
    /\ CollaborativeCall
    /\ Cardinality(RatedBy(rec.user)) = 2
    /\ similar_users(rec.user) # {}
    /\ Len(rec.list) >= 1

\* A call for a user with 3 ratings whose scan finds no similar user
C14_ScanFindsNobody ==
    /\ CollaborativeCall
    /\ Cardinality(RatedBy(rec.user)) >= MinUserRatings
    /\ rec.scanned # {}
    /\ similar_users(rec.user) = {}
    /\ Len(rec.list) >= 1

\* ---------------------------------------------------------------------------
\* C15: two users whose scores agree on every movie both have rated, with at
\* least two such movies, have similarity exactly 1, and the other user is a
\* neighbour of the requester in collaborative_filtering.
Agreeing(user, other) ==
    /\ Cardinality(common_movies(user, other)) >= MinCommonMovies
    /\ \A m \in common_movies(user, other) : ratings[user][m] = ratings[other][m]

C15_AgreeingUsersAreNeighbours ==
    CollaborativeCall =>
        \A o \in rec.scanned :
            Agreeing(rec.user, o) =>
                /\ similarity(rec.user, o)[1] = similarity(rec.user, o)[2]
                /\ o \in similar_users(rec.user)
                /\ o \in similar_user_ids(rec.user)

\* A scan that meets a user who agrees with the requester on two movies and
\* one who does not
C15_Witness ==
    /\ CollaborativeCall
    /\ \E o \in rec.scanned : Agreeing(rec.user, o)
    /\ \E o \in rec.scanned : ~Agreeing(rec.user, o)

\* ---------------------------------------------------------------------------
\* C16: the list similar_users of collaborative_filtering holds only users
\* other than the requester who share at least two rated movies with the
\* requester and whose similarity is above 0.5, each at most once; a user
\* with no common rated movie is never in it; the neighbours used are at most
\* 10 of the list, and no user left out is more similar than a user kept.
SimilarityOf(found, id) ==
    LET i == CHOOSE k \in 1..Len(found) : found[k][1] = id IN found[i][2]

C16_NeighboursAreSimilarUsers ==
    /\ CollaborativeCall =>
          /\ \A i \in 1..Len(rec.found) :
                LET other == rec.found[i][1]
                IN  /\ other # rec.user
                    /\ Cardinality(common_movies(rec.user, other)) >= MinCommonMovies
                    /\ rec.found[i][2] = similarity(rec.user, other)
                    /\ 2 * rec.found[i][2][1] > rec.found[i][2][2]
          /\ \A o \in UserIds :
                common_movies(rec.user, o) = {} => o \notin UserIdsOf(rec.found)
          /\ Cardinality(RatedBy(rec.user)) >= MinUserRatings =>
                /\ UserIdsOf(rec.found) = similar_users(rec.user)
                /\ Range(rec.neighbours) = similar_user_ids(rec.user)
    /\ Called =>
          /\ \A i, j \in 1..Len(rec.found) : i # j => rec.found[i][1] # rec.found[j][1]
          /\ \A i, j \in 1..Len(rec.neighbours) :
                i # j => rec.neighbours[i] # rec.neighbours[j]
          /\ Len(rec.neighbours) = Min(Len(rec.found), MaxSimilarUsers)
          /\ Range(rec.neighbours) \subseteq UserIdsOf(rec.found)
          /\ \A kept \in Range(rec.neighbours) :
                \A left \in UserIdsOf(rec.found) \ Range(rec.neighbours) :
                    SimilarityOf(rec.found, left)[1] * SimilarityOf(rec.found, kept)[2]
                      <= SimilarityOf(rec.found, kept)[1] * SimilarityOf(rec.found, left)[2]

\* A scan that takes one user as neighbour and rejects another
C16_Witness ==
    /\ CollaborativeCall
    /\ rec.found # <<>>
    /\ rec.scanned \ UserIdsOf(rec.found) # {}

\* A scan that meets a user with no common rated movie
C16_StrangerMet ==
    /\ CollaborativeCall
    /\ \E o \in rec.scanned : common_movies(rec.user, o) = {}

\* A list of 11 similar users, the least similar of them not the last
C16_EleventhLeftOut ==
    /\ Called
    /\ Len(rec.found) > MaxSimilarUsers
    /\ rec.found[1][1] \notin Range(rec.neighbours)

\* ---------------------------------------------------------------------------
\* C17: in the genre scores of genre_based one favorite adds strictly more
\* weight to each genre of its movie than any single rating adds, whatever the
\* score of the rating.
GenreCall == Called /\ rec.algorithm = "genre" /\ rec.user # AnonymousUser

\* What the rating of user for movie m adds to each genre of m
rating_weight(user, m) == IF ratings[user][m] >= 40 THEN ratings[user][m] ELSE 0

\* What a favorite of user adds to each genre of its movie
favorite_weight(user, m) == IF <<user, m>> \in favorites THEN FavoriteBonus ELSE 0

FavoritesOf(user) == {m \in movies : <<user, m>> \in favorites}

WeightsAddUp(user) ==
    \A g \in GenreIds :
        genre_scores(user)[g] =
            SetSum({m \in movies : g \in genres(m)},
                   [m \in MovieIds |-> rating_weight(user, m) + favorite_weight(user, m)])

HybridParts(user, limit, min_rating) ==
    popularity_based(user, limit \div 2, min_rating)
    \o genre_based(user, limit \div 2, min_rating)
    \o (IF Cardinality(RatedBy(user)) >= HybridMinRatings
        THEN collaborative_filtering(user, limit \div 3, min_rating)
             \o content_based(user, limit \div 3, min_rating)
        ELSE <<>>)

\* The positions of all_recs that hold the first occurrence of their movie
FirstOccurrences(all_recs) ==
    {i \in 1..Len(all_recs) : \A j \in 1..(i - 1) : all_recs[j].movie # all_recs[i].movie}

FirstDistinct(all_recs, limit) ==
    LET Before(i, j) == i < j
        order == SortedBy(FirstOccurrences(all_recs), Before)
    IN  [k \in 1..Min(limit, Len(order)) |->
            [all_recs[order[k]] EXCEPT !.algorithm = "hybrid"]]

C18_FewRatings ==
    /\ HybridMerge
    /\ Cardinality(RatedBy(rec.user)) < HybridMinRatings
    /\ Len(rec.list) >= 1
    /\ Len(content_based(rec.user, rec.limit \div 3, rec.min_rating)) >= 1

(***************************************************************************)
(* Properties of the similar-movies endpoint (SpecSimilar)                 *)
(***************************************************************************)
SimilarAnswer == last.op = "similar" /\ last.status = 200

InBoth(target_movie, limit) ==
    Range(MovieIdsOf(genre_similar(target_movie, limit)))
        \cap Range(MovieIdsOf(tag_similar(target_movie, limit)))

C19_TargetWithoutTags ==
    /\ SimilarAnswer
    /\ last.algorithm = "combined"
    /\ tags(last.movie) = {}
    /\ Len(last.list) >= 1

\* C20: the similar-movies list is ordered by overlap count descending and,
\* among entries of equal count, by popularity_score descending, whatever the
\* method, and has at most `limit` items.
OverlapOrdered(list) ==
    \A i, j \in 1..Len(list) :
        i < j =>
            \/ list[i].score[1] > list[j].score[1]
            \/ /\ list[i].score[1] = list[j].score[1]
               /\ popularity_score(list[i].movie) >= popularity_score(list[j].movie)

C20_OrderedByOverlapThenPopularity ==
    SimilarAnswer =>
        /\ Len(last.list) <= last.limit
        /\ OverlapOrdered(last.list)

\* A combined answer of two entries of equal count
C20_Witness ==
    /\ SimilarAnswer
    /\ last.algorithm = "combined"
    /\ Len(last.list) >= 2
    /\ last.list[1].score = last.list[2].score

(***************************************************************************)
(* The strategy a for-me response names (SpecFallback)                     *)
(***************************************************************************)
\* A for-me answer whose list was produced by another strategy than the one
\* requested: the items carry the tag of the strategy that built them
FellBack ==
    /\ last.op = "for_me"
    /\ last.status = 200
    /\ last.algorithm \in FallbackAlgorithms
    /\ last.list # <<>>
    /\ last.list[1].algorithm # last.algorithm

\* C21: when a for-me request names genre, collaborative or content and the
\* strategy hands over to a simpler one, algorithm_used of the response names
\* the strategy that produced the list, not the requested one.
C21_AlgorithmUsedNamesProducer ==
    FellBack => last.algorithm_used = last.list[1].algorithm

\* A collaborative request answered with the list of genre_based
C21_Witness ==
    /\ FellBack
    /\ last.algorithm = "collaborative"
    /\ last.list[1].algorithm = "genre"

(***************************************************************************)
(* The list of genre_based (SpecTopGenres)                                 *)
(***************************************************************************)
CountOf(counter, key) ==
    LET i == CHOOSE k \in 1..Len(counter) : counter[k][1] = key IN counter[i][2]

\* Every item is of one of the five genres of highest weight, and the items are
\* in descending order of popularity_score
InTopGenresByPopularity ==
    /\ GenreOwnList =>
          /\ top_genres(rec.user) =
                Range(most_common(genre_counter(rec.user), TopGenreCount))
          /\ \A i \in 1..Len(rec.list) :
                genres(rec.list[i].movie) \cap top_genres(rec.user) # {}
          /\ \A i \in 1..(Len(rec.list) - 1) :
                popularity_score(rec.list[i].movie) >= popularity_score(rec.list[i + 1].movie)
    /\ (Called /\ rec.algorithm = "most_common") =>
          /\ Len(rec.neighbours) = Min(Len(rec.found), TopGenreCount)
          /\ \A kept \in Range(rec.neighbours) :
                /\ kept \in UserIdsOf(rec.found)
                /\ \A left \in UserIdsOf(rec.found) \ Range(rec.neighbours) :
                      CountOf(rec.found, left) <= CountOf(rec.found, kept)

\* A call with a limit no smaller than the catalogue, default min_rating, for a
\* user whose only signal is a rating of 5.0 of the Action movie A1
OnlyLikes(user, A1) ==
    /\ RatedBy(user) = {A1}
    /\ ratings[user][A1] = 50
    /\ genres(A1) = {"Action"}
    /\ FavoritesOf(user) = {}

ActionExample(A1) ==
    /\ GenreOwnList
    /\ rec.min_rating = DefaultMinRating
    /\ rec.limit >= Cardinality(movies) - 1
    /\ OnlyLikes(rec.user, A1)

Position(list, m) == CHOOSE i \in 1..Len(list) : list[i].movie = m

Listed(list, m) == \E i \in 1..Len(list) : list[i].movie = m

\* C22: genre_based, when it does not fall back, returns only movies of the
\* user's five genres of highest weight, in descending order of
\* popularity_score; for a user whose only signal is a rating of 5.0 of the
\* Action movie A1 it returns every other Action movie A2 and places no
\* Drama-only movie D above it.
C22_GenreListOfTopGenres ==
    /\ InTopGenresByPopularity
    /\ \A A1 \in movies :
          ActionExample(A1) =>
              \A A2 \in movies \ {A1} :
                  "Action" \in genres(A2) =>
                      /\ Listed(rec.list, A2)
                      /\ \A D \in movies :
                            (genres(D) = {"Drama"} /\ Listed(rec.list, D)) =>
                                Position(rec.list, A2) < Position(rec.list, D)

\* C22, amended: the same, for every other Action movie A2 that has an IMDB
\* rating of at least min_rating; a movie without IMDB rating is never
\* returned.
C22_GenreListOfRatedTopGenres ==
    /\ InTopGenresByPopularity
    /\ \A A1 \in movies :
          ActionExample(A1) =>
              \A A2 \in movies \ {A1} :
                  "Action" \in genres(A2) =>
                      /\ Listed(rec.list, A2) <=> MinRatingOk(A2, rec.min_rating)
                      /\ \A D \in movies : genres(D) = {"Drama"} => ~Listed(rec.list, D)

\* The example with an Action movie listed, an Action movie without IMDB
\* rating, and a Drama movie in the catalogue
C22_Witness ==
    \E A1 \in movies :
        /\ ActionExample(A1)
        /\ Len(rec.list) >= 2
        /\ \E A2 \in movies \ {A1} : "Action" \in genres(A2) /\ imdb_rating(A2) = NullRating
        /\ \E D \in movies : genres(D) = {"Drama"}

\* A counter of six genres, the lightest of them not the last
C22_SixthGenreLeftOut ==
    /\ Called /\ rec.algorithm = "most_common"
    /\ Len(rec.found) > TopGenreCount
    /\ rec.found[1][1] \notin Range(rec.neighbours)

(***************************************************************************)
(* A for-me request next to a Rating write of the same user (SpecRace)     *)
(***************************************************************************)
\* C23: with for-me requests of user U running next to Rating writes of U, a
\* for-me request of U that starts after the write has returned is answered
\* with a list computed from a store that holds the write: no request that
\* read the store before the write leaves its result in the cache after the
\* invalidation.
C23_NoStaleResultAfterWrite ==
    /\ (last.op = "for_me" /\ last.status = 200 /\ last.hit)
          => last.list = query_func(last.user, last.algorithm, last.limit, last.min_rating)
    /\ inflight = Idle =>
          \A a \in RaceAlgorithms, l \in ReqLimits :
              LET key == recommendations_key(RaceUser, a, l, DefaultMinRating)
              IN  key \in DOMAIN cache =>
                      cache[key] = query_func(RaceUser, a, l, DefaultMinRating)

\* A request answered from the cache after a write, the entry set by a request
\* that had read the store before the write
C23_Witness ==
    /\ last.op = "for_me" /\ last.status = 200 /\ last.hit
    /\ nwrites >= 1
    /\ last.list # query_func(last.user, last.algorithm, last.limit, last.min_rating)

\* ---------------------------------------------------------------------------
\* C24: every item that collaborative_filtering returns with the tag
\* 'collaborative' is a movie the requester has not rated and that at least
\* two of the selected neighbours rated 4 or higher; its score is the mean of
\* those neighbours' scores; the items are ordered by mean score descending,
\* then by the number of those neighbours descending.
CrowdCall == Called /\ rec.algorithm = "recommended_movies"

NeighbourScore(o, m) ==
    IF CrowdCall
    THEN rec.found[CHOOSE i \in 1..Len(rec.found) : rec.found[i][1] = o][2][m]
    ELSE ratings[o][m]

Supporters(m) == {o \in Range(rec.neighbours) : NeighbourScore(o, m) >= 40}

SupportSum(m) == SetSum(Supporters(m), [o \in Range(rec.neighbours) |-> NeighbourScore(o, m)])

RequesterRated == IF CrowdCall THEN CrowdRated ELSE RatedBy(rec.user)

C24_CollaborativeItems ==
    (CollaborativeCall \/ CrowdCall) =>
        /\ \A i \in 1..Len(rec.list) :
              rec.list[i].algorithm = "collaborative" =>
                  LET m == rec.list[i].movie
                  IN  /\ m \notin RequesterRated
                      /\ Cardinality(Supporters(m)) >= 2
                      \* score = sum / count
                      /\ rec.list[i].score[1] * 10 * Cardinality(Supporters(m))
                            = SupportSum(m) * rec.list[i].score[2]
        /\ \A i, j \in 1..Len(rec.list) :
              (i < j /\ rec.list[i].algorithm = "collaborative"
                     /\ rec.list[j].algorithm = "collaborative") =>
                  LET a == rec.list[i].movie
                      b == rec.list[j].movie
                      ca == Cardinality(Supporters(a))
                      cb == Cardinality(Supporters(b))
                  IN  \/ SupportSum(a) * cb > SupportSum(b) * ca
                      \/ SupportSum(a) * cb = SupportSum(b) * ca /\ ca >= cb

\* Two items of equal mean score, the one with three supporters before the one
\* with two although its id is higher, next to a movie all neighbours rated 5
\* that the requester has rated
C24_Witness ==
    /\ CrowdCall
    /\ Len(rec.list) = 2
    /\ rec.list[1].movie > rec.list[2].movie
    /\ Cardinality(Supporters(rec.list[1].movie)) = 3
    /\ Cardinality(Supporters(rec.list[2].movie)) = 2
    /\ \E m \in RequesterRated : Cardinality(Supporters(m)) = 3

\* A call on the store with two neighbours that returns a collaborative item
C24_StoreWitness ==
    /\ CollaborativeCall
    /\ Len(rec.list) >= 1
    /\ rec.list[1].algorithm = "collaborative"
    /\ \E o \in Range(rec.neighbours), m \in movies : ratings[o][m] \in 1..39

\* A neighbour's score below 4 on a listed movie
C24_LowScoreLeftOut ==
    /\ CrowdCall
    /\ \E i \in 1..Len(rec.list), o \in Range(rec.neighbours) :
          NeighbourScore(o, rec.list[i].movie) \in 1..39

\* ---------------------------------------------------------------------------
\* C25: content_based, for a user with at least one rating of 4 or more, returns
\* only movies the user has not rated, each with a score above 0 that is
\* 0.4 * the sum of the weights of its genres + 0.3 * the sum of the weights of
\* its tags + 0.3 * the weight of its decade, the weights being the sums of the
\* user's scores of 4 or more, in non-increasing score order; for a user with no
\* rating of 4 or more it returns the list of genre_based.
ContentCall == Called /\ rec.algorithm = "content" /\ rec.user # AnonymousUser

LikedBy(user) == {x \in movies : ratings[user][x] >= 40}

LikedSum(user, S) == SetSum(S \cap LikedBy(user), [x \in MovieIds |-> ratings[user][x]])

GenreWeight(user, g) == LikedSum(user, {x \in movies : g \in genres(x)})

TagWeight(user, t) == LikedSum(user, {x \in movies : t \in tags(x)})

DecadeWeight(user, d) == LikedSum(user, {x \in movies : (release_year(x) \div 10) * 10 = d})

\* the score in hundredths
WeightedOverlap(user, m) ==
      4 * SetSum(genres(m), [g \in GenreIds |-> GenreWeight(user, g)])
    + 3 * SetSum(tags(m), [t \in TagIds |-> TagWeight(user, t)])
    + 3 * DecadeWeight(user, (release_year(m) \div 10) * 10)

C25_NothingLiked ==
    /\ ContentCall
    /\ RatedBy(rec.user) # {}
    /\ LikedBy(rec.user) = {}
    /\ Len(rec.list) >= 1

(***************************************************************************)
(* The frame of the invalidation by user id (SpecFrame)                    *)
(***************************************************************************)
Kept(c, d, k) == k \in DOMAIN d /\ d[k] = c[k]

\* C26: when the pattern deletion succeeds, the invalidation of the
\* recommendations of user U that a write of U triggers removes entries of U
\* only: the cached recommendations of every other user (U = 1 and V = 10, for
\* instance) are unchanged, and so is every entry that is not a recommendation
\* when the receiver invalidates by user id only.
C26_OtherEntriesUnchanged ==
    [][ (last'.op \in UserWrites /\ nwrites' = nwrites + 1 /\ backend = "up") =>
            /\ \A v \in UserIds \ {last'.user} :
                  \A k \in UserEntries(cache, v) : Kept(cache, cache', k)
            /\ last'.op \in {"favorite", "watch"} =>
                  \A k \in DOMAIN cache :
                      k[1] # "recommendations" => Kept(cache, cache', k) ]_vars

\* A write of user 1 that found cached recommendations of user 10 and a cached
\* list of popular movies
C26_Witness ==
    /\ last.op \in UserWrites /\ Succeeded
    /\ last.user = 1
    /\ UserEntries(last.before, 10) # {}
    /\ \E k \in DOMAIN last.before : k[1] # "recommendations" /\ Kept(last.before, cache, k)

\* A write of user 10 that leaves the cached recommendations of user 1
C26_LongerIdKeepsShorter ==
    /\ last.op \in UserWrites /\ Succeeded
    /\ last.user = 10
    /\ UserEntries(last.before, 1) # {}
    /\ \A k \in UserEntries(last.before, 1) : Kept(last.before, cache, k)

(***************************************************************************)
(* Writes while the cache backend is unavailable (SpecInvalidation)        *)
(***************************************************************************)
\* The row the write `op` of (u, m) leaves in the store st2, coming from st1
Persisted(op, u, m, r1, f1, w1, r2, f2, w2) ==
    CASE op = "rate"     -> r2[u][m] # 0
      [] op = "unrate"   -> r2[u][m] = 0
      [] op = "favorite" -> (<<u, m>> \in f2) # (<<u, m>> \in f1)
      [] op = "watch"    -> <<u, m>> \in w2
      [] op = "unwatch"  -> <<u, m>> \notin w2
      [] OTHER           -> TRUE

\* C27: a Rating, Favorite or WatchHistory write succeeds and is persisted
\* whatever the state of the cache backend: a failure of the invalidation
\* (pattern deletion and full clear) does not reach the writer.
C27_WriteSurvivesCacheFailure ==
    [][ (last'.op \in UserWrites /\ nwrites' = nwrites + 1) =>
            /\ last'.status \in {200, 201}
            /\ Persisted(last'.op, last'.user, last'.movie, ratings, favorites, watch_history,
                         ratings', favorites', watch_history') ]_vars

\* A write made while the backend is unavailable
C27_Witness ==
    /\ last.op \in UserWrites
    /\ last.status = 500
    /\ backend = "down"

(***************************************************************************)
(* The similarity of two users over the valid scores (SpecSimilarity)      *)
(***************************************************************************)
\* C28: for two users whose scores are valid for the Rating model (0.5 to 5.0)
\* and who have at least 2 common movies, the similarity collaborative_filtering
\* computes lies between 0 and 1 and is the same in both directions.
C28_SimilarityInUnitInterval ==
    CollaborativeCall =>
        \A o \in rec.scanned :
            Cardinality(common_movies(rec.user, o)) >= MinCommonMovies =>
                /\ similarity(rec.user, o)[1] >= 0
                /\ similarity(rec.user, o)[1] <= similarity(rec.user, o)[2]
                /\ similarity(rec.user, o) = similarity(o, rec.user)

\* A scan of a user who shares two movies with the requester and gave one of
\* them the lowest valid score, the requester the highest
C28_Witness ==
    /\ CollaborativeCall
    /\ \E o \in rec.scanned :
          /\ Cardinality(common_movies(rec.user, o)) >= MinCommonMovies
          /\ \E m \in common_movies(rec.user, o) :
                ratings[o][m] = 5 /\ ratings[rec.user][m] = 50

\* What holds of the similarity: at most 1, and symmetric
C28_AtMostOneAndSymmetric ==
    CollaborativeCall =>
        \A o \in rec.scanned :
            Cardinality(common_movies(rec.user, o)) >= MinCommonMovies =>
                /\ similarity(rec.user, o)[1] <= similarity(rec.user, o)[2]
                /\ similarity(rec.user, o) = similarity(o, rec.user)

(***************************************************************************)
(* hybrid_recommendations and the universal fallback (SpecHybrid)          *)
(***************************************************************************)
AuthenticatedHybridCall ==
    Called /\ rec.algorithm = "hybrid" /\ rec.user # AnonymousUser /\ rec.limit >= 1

\* C29: for an authenticated user and every limit of at least 1, when
\* popularity_based(limit) is not empty on the current store,
\* hybrid_recommendations(limit) is not empty either, limit = 1 included.
C29_HybridNotEmpty ==
    AuthenticatedHybridCall =>
        (popularity_based(rec.user, rec.limit, rec.min_rating) # <<>> => rec.list # <<>>)

\* A call with limit 1 on a store where popularity_based(1) lists a movie
C29_Witness ==
    /\ AuthenticatedHybridCall
    /\ rec.limit = 1
    /\ popularity_based(rec.user, 1, rec.min_rating) # <<>>

\* From limit 2 on the list is not empty when popularity_based's is not
C29_NotEmptyFromLimitTwo ==
    (AuthenticatedHybridCall /\ rec.limit >= 2) =>
        (popularity_based(rec.user, rec.limit, rec.min_rating) # <<>> => rec.list # <<>>)

(***************************************************************************)
(* The keys of the popular movies asked for with filters (SpecFilters)     *)
(***************************************************************************)
FilteredCall == rec.algorithm = "popular_movies" /\ last.op = "popular"

\* the keyword parameters as a mapping
Mapping(filters) == {filters[i] : i \in 1..Len(filters)}

Reversed(seq) == [i \in 1..Len(seq) |-> seq[Len(seq) + 1 - i]]

\* C30: the key of a request for the popular movies does not depend on the order
\* of its keyword parameters, two requests whose keyword parameters differ never
\* get the same key, filter values that contain ':' or '=' included, and a
\* request is never answered with the cached result of another request.
C30_KeysTellRequestsApart ==
    FilteredCall =>
        /\ last.key = movies_popular_filters_key(rec.limit, Reversed(rec.found))
        /\ \A filters \in FilterLists :
              movies_popular_filters_key(rec.limit, filters) = last.key
                  => Mapping(filters) = Mapping(rec.found)
        /\ last.hit => last.list = popular_movies_filters_query(rec.limit, rec.found)

\* A request answered from the cache with the list of a request for other filters
C30_Witness ==
    /\ FilteredCall
    /\ last.hit
    /\ last.list # popular_movies_filters_query(rec.limit, rec.found)

\* What holds of the keys: the order of the parameters does not matter, and
\* requests whose values hold neither ':' nor '=' get keys of their own
PlainLists ==
    {filters \in FilterLists : \A i \in 1..Len(filters) : Len(filters[i][2]) = 1}

C30_PlainValuesToldApart ==
    FilteredCall =>
        /\ last.key = movies_popular_filters_key(rec.limit, Reversed(rec.found))
        /\ rec.found \in PlainLists =>
              \A filters \in PlainLists :
                  movies_popular_filters_key(rec.limit, filters) = last.key
                      => Mapping(filters) = Mapping(rec.found)

\* A request with two parameters given in the order title, description
C30_TwoParameters ==
    /\ FilteredCall
    /\ Len(rec.found) = 2
    /\ rec.found[1][1] = "title"

====
